---- MODULE Spec2Model ----
(***************************************************************************)
(* Model of the component / socket graph-assembly engine of                *)
(* yarl/components/component.py (class Component).                         *)
(*                                                                         *)
(* The Python object graph is modelled as a heap: sequences of records     *)
(* (Components, Sockets, Computations, Explorations) whose indices are the *)
(* object identities.  Every method of Component is an operator that maps  *)
(* a heap to a result record [h, err, ret]: the heap after the call (with  *)
(* the partial effects of a call that raised), the error raised ("none"    *)
(* when the call returned) and the returned object.                        *)
(*                                                                         *)
(* The code raises YARLError, AssertionError or KeyError; the model names  *)
(* every raise site after the error taxonomy of the specification.         *)
(***************************************************************************)
EXTENDS Integers, Sequences, FiniteSets, TLC

(***************************************************************************)
(* Bounds of the model.                                                    *)
(***************************************************************************)
MaxOps == 3
MaxWireOps == 4
MaxFlagOps == 2
MaxLookupOps == 2
MaxComponents == 8
MaxSockets == 14
MaxComputations == 5
MaxExplorations == 6
BatchSize == 2
NumCategories == 3
MaxWorkers == 2
MaxWorkerOps == 3
MaxResetOps == 5
MaxTimesteps == 2
MaxEpisodeLimit == 2
MaxFrameskip == 2
MaxReward == 1
MaxTransposes == 1
MaxTransposeOps == 4

(***************************************************************************)
(* Program constants.                                                      *)
(***************************************************************************)
CONNECT_INS == 1
CONNECT_OUTS == 2

(***************************************************************************)
(* Names.  A Python str is a TLA+ string; Chars gives its characters, for  *)
(* the operators that look inside a name (the regular expressions).        *)
(***************************************************************************)
SocketNames == {"input", "output", "x", "xinput", "inputs", "my-input", "output_2",
                "input_output", "output1input"}
ComponentNames == {"P", "Q", "R", "Q2"}
MethodNames == {"double", "halve", "triple"}
ScopeNames == {"", "net", "my-scope_1", "bad scope", "a/b", "net\n"}
Spaces == {"space1"}

Chars(s) ==
    CASE s = "input"  -> <<"i", "n", "p", "u", "t">>
      [] s = "output" -> <<"o", "u", "t", "p", "u", "t">>
      [] s = "x"      -> <<"x">>
      [] s = "xinput" -> <<"x", "i", "n", "p", "u", "t">>
      [] s = "inputs" -> <<"i", "n", "p", "u", "t", "s">>
      [] s = "my-input" -> <<"m", "y", "-", "i", "n", "p", "u", "t">>
      [] s = "output_2" -> <<"o", "u", "t", "p", "u", "t", "_", "2">>
      [] s = "input_output" -> <<"i", "n", "p", "u", "t", "_", "o", "u", "t", "p", "u", "t">>
      [] s = "output1input" -> <<"o", "u", "t", "p", "u", "t", "1", "i", "n", "p", "u", "t">>
      [] s = "P"      -> <<"P">>
      [] s = "Q"      -> <<"Q">>
      [] s = "R"      -> <<"R">>
      [] s = "Q2"     -> <<"Q", "2">>
      [] s = ""       -> << >>
      [] s = "net"    -> <<"n", "e", "t">>
      [] s = "my-scope_1" -> <<"m", "y", "-", "s", "c", "o", "p", "e", "_", "1">>
      [] s = "bad scope"  -> <<"b", "a", "d", " ", "s", "c", "o", "p", "e">>
      [] s = "a/b"    -> <<"a", "/", "b">>
      [] s = "net\n"  -> <<"n", "e", "t", "\n">>
      [] OTHER        -> << >>

Letters == {"i", "n", "p", "u", "t", "o", "x", "s", "m", "y", "P", "Q", "R",
            "a", "b", "c", "d", "e"}
Digits == {"0", "1", "2"}

IsWordChar(ch) == ch \in Letters \cup Digits \cup {"_"}
IsDigitOrUnderscore(ch) == ch \in Digits \cup {"_"}

(* \b at offset p of s (between s[p] and s[p+1]; the ends count as non-word). *)
WordBoundary(s, p) ==
    LET left == p >= 1 /\ IsWordChar(s[p])
        right == p < Len(s) /\ IsWordChar(s[p + 1])
    IN left # right

HasAt(s, q, w) ==
    /\ q + Len(w) <= Len(s)
    /\ \A i \in 1..Len(w) : s[q + i] = w[i]

(* ([\d_]|\b) at offset r, as the closing group of the pattern. *)
DelimiterAt(s, r) ==
    \/ r < Len(s) /\ IsDigitOrUnderscore(s[r + 1])
    \/ WordBoundary(s, r)

(* (in|out)put at offset q without the closing group. *)
InOutPutAt_unclosed(s, q) ==
    IF HasAt(s, q, <<"i", "n", "p", "u", "t">>) THEN "in"
    ELSE IF HasAt(s, q, <<"o", "u", "t", "p", "u", "t">>) THEN "out"
    ELSE "none"

(* (in|out)put([\d_]|\b) at offset q: the text of group 2, or "none". *)
InOutPutAt(s, q) ==
    IF HasAt(s, q, <<"i", "n", "p", "u", "t">>) /\ DelimiterAt(s, q + 5) THEN "in"
    ELSE IF HasAt(s, q, <<"o", "u", "t", "p", "u", "t">>) /\ DelimiterAt(s, q + 6) THEN "out"
    ELSE "none"

(* The whole pattern tried at offset p: first alternative [\d_], then \b. *)
MatchAt(s, p) ==
    LET viaChar == IF p < Len(s) /\ IsDigitOrUnderscore(s[p + 1])
                   THEN InOutPutAt(s, p + 1) ELSE "none"
        viaBoundary == IF WordBoundary(s, p) THEN InOutPutAt(s, p) ELSE "none"
    IN IF viaChar # "none" THEN viaChar ELSE viaBoundary

(* The leftmost offset of s at which the pattern matches, given the result
   of the attempt at every offset. *)
GroupOfLeftmost(attempts) ==
    IF \A p \in DOMAIN attempts : attempts[p] = "none" THEN "none"
    ELSE attempts[CHOOSE p \in DOMAIN attempts :
                     /\ attempts[p] # "none"
                     /\ \A q \in DOMAIN attempts : attempts[q] # "none" => p <= q]

SearchIn(s) == GroupOfLeftmost([p \in 0..Len(s) |-> MatchAt(s, p)])

(* re.search(r'([\d_]|\b)(in|out)put([\d_]|\b)', name): group 2 of the
   leftmost match, "none" when there is no match. *)
infer_type(name) == SearchIn(Chars(name))

(***************************************************************************)
(* The heap.                                                               *)
(***************************************************************************)
NoObject == 0

(* The outcome of a call: the heap after it, the error raised ("none" when
   it returned) and the object returned. *)
Result(h, err, ret) == [h |-> h, err |-> err, ret |-> ret]

(* Component.__init__: the fields of a freshly constructed Component.
   methods are the names of the _computation_ members of its class. *)
NewComponent(name, scope, methods, computation_settings) ==
    [name |-> name, scope |-> scope, methods |-> methods,
     computation_settings |-> computation_settings,  \* dict as <<key, value>> items
     variables |-> {},       \* dict as a set of <<name, variable>> items
     sub_components |-> {},  \* dict as a set of <<key, Component>> items
     has_been_added |-> FALSE,
     input_sockets |-> << >>, output_sockets |-> << >>, internal_sockets |-> << >>,
     input_complete |-> FALSE,
     no_input_computations |-> << >>]

(* The length of the longest prefix of s, from offset k on, that [\w\-]*
   takes. *)
RECURSIVE ScopeCharsFrom(_, _)
ScopeCharsFrom(s, k) ==
    IF k < Len(s) /\ (IsWordChar(s[k + 1]) \/ s[k + 1] = "-")
    THEN ScopeCharsFrom(s, k + 1)
    ELSE k

(* $ at offset k of s: the end of the string, or just before a newline that
   ends the string. *)
DollarAt(s, k) == k = Len(s) \/ (k = Len(s) - 1 /\ s[Len(s)] = "\n")

(* re.match(r'^[\w\-]*$', scope): the star takes a prefix, giving characters
   back until $ matches. *)
scope_pattern_matches(s) == \E k \in 0..ScopeCharsFrom(s, 0) : DollarAt(s, k)

(* __init__ without the assert on the scope. *)
__init___any_scope(h, scope, name, methods, computation_settings) ==
    Result([h EXCEPT !.comps = Append(@,
                NewComponent(IF name = "none"
                             THEN (IF scope = "none" THEN "" ELSE scope)
                             ELSE name,
                             IF scope = "none" THEN "" ELSE scope,
                             methods, computation_settings))],
           "none", Len(h.comps) + 1)

(* Component(scope=..., name=..., computation_settings=...): scope and name
   are a str or "none" (keyword not given); methods are the _computation_
   members of the class.  Returns the new Component. *)
__init__(h, scope, name, methods, computation_settings) ==
    IF ~scope_pattern_matches(Chars(IF scope = "none" THEN "" ELSE scope))
    THEN Result(h, "ScopeFormatError", NoObject)
    ELSE Result([h EXCEPT !.comps = Append(@,
                NewComponent(IF name = "none"
                             THEN (IF scope = "none" THEN "" ELSE scope)
                             ELSE name,
                             IF scope = "none" THEN "" ELSE scope,
                             methods, computation_settings))],
                "none", Len(h.comps) + 1)

(* Socket.__init__ *)
NewSocket(name, component, type_) ==
    [name |-> name, component |-> component, type |-> type_,
     incoming_connections |-> << >>, outgoing_connections |-> << >>]

(* An entry of a connection list: a Socket, a Space or a Computation. *)
SocketRef(s) == [kind |-> "socket", id |-> s]
SpaceRef(sp) == [kind |-> "space", id |-> sp]
ComputationRef(k) == [kind |-> "computation", id |-> k]

(* comps, socks and computations hold the objects by identity; nvars counts
   the variable objects the backend has handed out; explorations holds the
   Exploration objects, workers the IMPALAWorker objects and transposes the
   Transpose objects. *)
EmptyHeap == [comps |-> << >>, socks |-> << >>, computations |-> << >>,
              nvars |-> 0, explorations |-> << >>, workers |-> << >>,
              transposes |-> << >>]

SeqToSet(s) == {s[i] : i \in 1..Len(s)}
SeqContains(s, e) == \E i \in 1..Len(s) : s[i] = e

(* list.remove(e): drops the first occurrence of e. *)
RemoveFirst(s, e) ==
    LET i == CHOOSE j \in 1..Len(s) : s[j] = e /\ \A k \in 1..(j - 1) : s[k] # e
    IN SubSeq(s, 1, i - 1) \o SubSeq(s, i + 1, Len(s))

AllSockets(h, c) ==
    h.comps[c].input_sockets \o h.comps[c].output_sockets \o h.comps[c].internal_sockets

(* next((x for x in list_ if x.name == name), None) *)
FirstByName(h, list_, name) ==
    LET hits == {i \in 1..Len(list_) : h.socks[list_[i]].name = name}
    IN IF hits = {} THEN NoObject
       ELSE list_[CHOOSE i \in hits : \A j \in hits : i <= j]

(* get_socket_by_name whose fallback to the in-Sockets does not ask for
   type_ to be None. *)
get_socket_by_name_any_fallback(h, component, name, type_) ==
    LET c == h.comps[component]
    IN IF type_ # "in"
       THEN LET socket_obj == FirstByName(h, c.output_sockets \o c.internal_sockets, name)
            IN IF socket_obj = NoObject
               THEN FirstByName(h, c.input_sockets, name)
               ELSE socket_obj
       ELSE FirstByName(h, c.input_sockets \o c.internal_sockets, name)

(* Component.get_socket_by_name (static); type_ is "in", "out" or "none". *)
get_socket_by_name(h, component, name, type_) ==
    LET c == h.comps[component]
    IN IF type_ # "in"
       THEN LET socket_obj == FirstByName(h, c.output_sockets \o c.internal_sockets, name)
            IN IF type_ = "none" /\ socket_obj = NoObject
               THEN FirstByName(h, c.input_sockets, name)
               ELSE socket_obj
       ELSE FirstByName(h, c.input_sockets \o c.internal_sockets, name)

(* dict: d[k] = v, `k in d`, d.values() *)
DictSet(d, k, v) == {e \in d : e[1] # k} \cup {<<k, v>>}
DictHasKey(d, k) == \E e \in d : e[1] = k
DictValues(d) == {e[2] : e \in d}

(***************************************************************************)
(* Socket (yarl/components/socket_and_computation.py).                     *)
(***************************************************************************)
(* Socket.connect_to: append to outgoing_connections. *)
connect_to(h, s, ref) ==
    [h EXCEPT !.socks[s].outgoing_connections = Append(@, ref)]

(* Socket.connect_from: append to incoming_connections. *)
connect_from(h, s, ref) ==
    [h EXCEPT !.socks[s].incoming_connections = Append(@, ref)]

(* Socket.disconnect_to: remove from outgoing_connections. *)
disconnect_to(h, s, ref) ==
    IF SeqContains(h.socks[s].outgoing_connections, ref)
    THEN [h EXCEPT !.socks[s].outgoing_connections = RemoveFirst(@, ref)]
    ELSE h

(* Socket.disconnect_from: remove from incoming_connections. *)
disconnect_from(h, s, ref) ==
    IF SeqContains(h.socks[s].incoming_connections, ref)
    THEN [h EXCEPT !.socks[s].incoming_connections = RemoveFirst(@, ref)]
    ELSE h

(***************************************************************************)
(* Component.add_sockets                                                   *)
(***************************************************************************)
(* sock = Socket(name=name, component=self, type_=type_) and its append to
   one of the three lists. *)
append_socket(h, self, name, type_, internal) ==
    [h EXCEPT !.socks = Append(@, NewSocket(name, self, type_)),
              !.comps[self].internal_sockets =
                  IF internal THEN Append(@, Len(h.socks) + 1) ELSE @,
              !.comps[self].input_sockets =
                  IF ~internal /\ type_ = "in" THEN Append(@, Len(h.socks) + 1) ELSE @,
              !.comps[self].output_sockets =
                  IF ~internal /\ type_ # "in" THEN Append(@, Len(h.socks) + 1) ELSE @]

(* The loop `for name in sockets`; type_ and all_names are the loop's
   locals, carried from one iteration to the next.  add_sockets_named is the
   rest of one iteration once type_ was inferred. *)
RECURSIVE add_sockets_loop(_, _, _, _, _, _)
RECURSIVE add_sockets_named(_, _, _, _, _, _)
add_sockets_named(h, self, sockets, type_, internal, all_names) ==
    IF type_ = "none" THEN Result(h, "NameInferenceError", NoObject)
    ELSE IF Head(sockets) \in all_names THEN Result(h, "DuplicateSocketError", NoObject)
    ELSE add_sockets_loop(append_socket(h, self, Head(sockets), type_, internal),
                          self, Tail(sockets), type_, internal,
                          all_names \cup {Head(sockets)})

add_sockets_loop(h, self, sockets, type_, internal, all_names) ==
    IF sockets = << >> THEN Result(h, "none", NoObject)
    ELSE add_sockets_named(h, self, sockets,
                           IF type_ = "none" THEN infer_type(Head(sockets)) ELSE type_,
                           internal, all_names)

(* add_sockets with all_names starting empty: the existing Sockets' names
   are not collected. *)
add_sockets_forgets_existing(h, self, sockets, type_, internal) ==
    add_sockets_loop(h, self, sockets, type_, internal, {})

add_sockets(h, self, sockets, type_, internal) ==
    add_sockets_loop(h, self, sockets, type_, internal,
                     {h.socks[s].name : s \in SeqToSet(AllSockets(h, self))})

(***************************************************************************)
(* Socket specifiers (the `socket`, `from_` and `to_` arguments).          *)
(***************************************************************************)
OnlySpec == [kind |-> "only", c |-> NoObject, name |-> "", id |-> NoObject]
NameSpec(name) == [kind |-> "name", c |-> NoObject, name |-> name, id |-> NoObject]
PairSpec(c, name) == [kind |-> "pair", c |-> c, name |-> name, id |-> NoObject]
SocketSpec(s) == [kind |-> "socket", c |-> NoObject, name |-> "", id |-> s]
ComponentSpec(c) == [kind |-> "component", c |-> c, name |-> "", id |-> NoObject]
SpaceSpec(sp) == [kind |-> "space", c |-> NoObject, name |-> "", id |-> sp]

(***************************************************************************)
(* Component.get_socket                                                    *)
(***************************************************************************)
(* get_only_socket that returns the first Socket of the side when there are
   several. *)
get_only_socket_first(h, self, type_) ==
    IF type_ = "none" THEN Result(h, "AssertionError", NoObject)
    ELSE IF Len(IF type_ = "out" THEN h.comps[self].output_sockets
                ELSE h.comps[self].input_sockets) < 1
    THEN Result(h, "AmbiguousSocketError", NoObject)
    ELSE Result(h, "none", (IF type_ = "out" THEN h.comps[self].output_sockets
                            ELSE h.comps[self].input_sockets)[1])

(* "Return the only Socket of this component on given side" *)
get_only_socket(h, self, type_) ==
    IF type_ = "none" THEN Result(h, "AssertionError", NoObject)
    ELSE IF Len(IF type_ = "out" THEN h.comps[self].output_sockets
                ELSE h.comps[self].input_sockets) # 1
    THEN Result(h, "AmbiguousSocketError", NoObject)
    ELSE Result(h, "none", (IF type_ = "out" THEN h.comps[self].output_sockets
                            ELSE h.comps[self].input_sockets)[1])

(* socket_obj = self.get_socket(socket_name), after add_sockets returned. *)
get_socket_again(h, socket_obj) ==
    IF socket_obj = NoObject THEN Result(h, "SocketNotFoundError", NoObject)
    ELSE Result(h, "none", socket_obj)

(* "Create new internal one?": added is the outcome of add_sockets. *)
get_socket_created(self, socket_name, added) ==
    IF added.err # "none" THEN added
    ELSE get_socket_again(added.h, get_socket_by_name(added.h, self, socket_name, "none"))

(* get_socket_found that creates the missing Socket whatever
   create_internal_if_not_found says. *)
get_socket_found_always_creates(h, self, socket_name, socket_obj, create_internal_if_not_found) ==
    IF socket_obj # NoObject THEN Result(h, "none", socket_obj)
    ELSE get_socket_created(self, socket_name,
                            add_sockets(h, self, <<socket_name>>, "in", TRUE))

(* "No Socket found": socket_obj is the outcome of the lookup. *)
get_socket_found(h, self, socket_name, socket_obj, create_internal_if_not_found) ==
    IF socket_obj # NoObject THEN Result(h, "none", socket_obj)
    ELSE IF create_internal_if_not_found
    THEN get_socket_created(self, socket_name,
                            add_sockets(h, self, <<socket_name>>, "in", TRUE))
    ELSE Result(h, "SocketNotFoundError", NoObject)

get_socket(h, self, socket, type_, create_internal_if_not_found) ==
    IF socket.kind = "only" THEN get_only_socket(h, self, type_)
    ELSE IF socket.kind = "socket" THEN Result(h, "none", socket.id)
    ELSE IF socket.kind = "component" THEN Result(h, "TypeError", NoObject)
    ELSE get_socket_found(h, self, socket.name,
                          get_socket_by_name(h, IF socket.kind = "name" THEN self ELSE socket.c,
                                             socket.name, type_),
                          create_internal_if_not_found)

(* socket is a socket specifier for a name, or OnlySpec for None. *)
get_input(h, self, socket) == get_socket(h, self, socket, "in", FALSE)

get_output(h, self, socket) == get_socket(h, self, socket, "out", FALSE)

(* [self.get_socket(s, create_internal_if_not_found=True) for s in specs] *)
RECURSIVE get_sockets_create(_, _, _, _)
RECURSIVE get_sockets_create_next(_, _, _, _)
get_sockets_create_next(self, specs, found, r) ==
    IF r.err # "none" THEN r
    ELSE get_sockets_create(r.h, self, Tail(specs), Append(found, r.ret))

get_sockets_create(h, self, specs, found) ==
    IF specs = << >> THEN Result(h, "none", found)
    ELSE get_sockets_create_next(self, specs, found,
                                 get_socket(h, self, Head(specs), "none", TRUE))

(***************************************************************************)
(* Component.connect / disconnect / _connect_disconnect                    *)
(***************************************************************************)
(* "Connect a Space" as from_: r is the outcome of self.get_socket(to_),
   without the assert on the Socket's type. *)
connect_space_from_any_type(h, r, space, disconnect) ==
    IF r.err # "none" THEN r
    ELSE IF ~disconnect
    THEN Result(connect_from(h, r.ret, SpaceRef(space)), "none", NoObject)
    ELSE Result(disconnect_from(h, r.ret, SpaceRef(space)), "none", NoObject)

(* "Connect a Space" as from_: r is the outcome of self.get_socket(to_). *)
connect_space_from(h, r, space, disconnect) ==
    IF r.err # "none" THEN r
    ELSE IF h.socks[r.ret].type # "in" THEN Result(h, "TypeMismatchError", NoObject)
    ELSE IF ~disconnect
    THEN Result(connect_from(h, r.ret, SpaceRef(space)), "none", NoObject)
    ELSE Result(disconnect_from(h, r.ret, SpaceRef(space)), "none", NoObject)

(* "Connect a Space" as to_: r is the outcome of self.get_socket(from_). *)
connect_space_to(h, r, space, disconnect) ==
    IF r.err # "none" THEN r
    ELSE IF h.socks[r.ret].type # "out" THEN Result(h, "TypeMismatchError", NoObject)
    ELSE IF ~disconnect
    THEN Result(connect_to(h, r.ret, SpaceRef(space)), "none", NoObject)
    ELSE Result(disconnect_to(h, r.ret, SpaceRef(space)), "none", NoObject)

(* link_sockets without the sanity check of the disconnect path. *)
link_sockets_unchecked(h, f, t, disconnect) ==
    IF f.err # "none" THEN f
    ELSE IF t.err # "none" THEN t
    ELSE IF disconnect
    THEN Result(disconnect_from(disconnect_to(h, f.ret, SocketRef(t.ret)),
                                t.ret, SocketRef(f.ret)), "none", NoObject)
    ELSE Result(connect_from(connect_to(h, f.ret, SocketRef(t.ret)),
                             t.ret, SocketRef(f.ret)), "none", NoObject)

(* link_sockets whose disconnect cuts the link on the source's side only
   (to_socket_obj.disconnect_from is not called). *)
link_sockets_one_sided(h, f, t, disconnect) ==
    IF f.err # "none" THEN f
    ELSE IF t.err # "none" THEN t
    ELSE IF disconnect THEN
      IF h.socks[f.ret].component = h.socks[t.ret].component
      THEN Result(h, "SameComponentConnectionError", NoObject)
      ELSE Result(disconnect_to(h, f.ret, SocketRef(t.ret)), "none", NoObject)
    ELSE Result(connect_from(connect_to(h, f.ret, SocketRef(t.ret)),
                             t.ret, SocketRef(f.ret)), "none", NoObject)

(* link_sockets whose connect records the link on the source's side only
   (to_socket_obj.connect_from is not called). *)
link_sockets_source_only(h, f, t, disconnect) ==
    IF f.err # "none" THEN f
    ELSE IF t.err # "none" THEN t
    ELSE IF disconnect THEN
      IF h.socks[f.ret].component = h.socks[t.ret].component
      THEN Result(h, "SameComponentConnectionError", NoObject)
      ELSE Result(disconnect_from(disconnect_to(h, f.ret, SocketRef(t.ret)),
                                  t.ret, SocketRef(f.ret)), "none", NoObject)
    ELSE Result(connect_to(h, f.ret, SocketRef(t.ret)), "none", NoObject)

(* "(Dis)connect the two Sockets in both ways": f and t are the outcomes of
   the lookups of from_socket_obj and to_socket_obj. *)
link_sockets(h, f, t, disconnect) ==
    IF f.err # "none" THEN f
    ELSE IF t.err # "none" THEN t
    ELSE IF disconnect THEN
      IF h.socks[f.ret].component = h.socks[t.ret].component
      THEN Result(h, "SameComponentConnectionError", NoObject)
      ELSE Result(disconnect_from(disconnect_to(h, f.ret, SocketRef(t.ret)),
                                  t.ret, SocketRef(f.ret)), "none", NoObject)
    ELSE Result(connect_from(connect_to(h, f.ret, SocketRef(t.ret)),
                             t.ret, SocketRef(f.ret)), "none", NoObject)

(* "Get only-out Socket" / "Get only-in Socket" of a Component given as
   endpoint, or the regular lookup; side is "out" for from_, "in" for to_. *)
endpoint_socket(h, self, endpoint, side) ==
    get_socket(h,
               IF endpoint.kind = "component" THEN endpoint.c ELSE self,
               IF endpoint.kind = "component" THEN OnlySpec ELSE endpoint,
               IF endpoint.kind = "component" THEN side ELSE "none",
               FALSE)

_connect_disconnect(h, self, from_, to_, disconnect) ==
    IF from_.kind = "space"
    THEN connect_space_from(h, get_socket(h, self, to_, "none", FALSE), from_.id, disconnect)
    ELSE IF to_.kind = "space"
    THEN connect_space_to(h, get_socket(h, self, from_, "none", FALSE), to_.id, disconnect)
    ELSE link_sockets(h, endpoint_socket(h, self, from_, "out"),
                      endpoint_socket(h, self, to_, "in"), disconnect)

connect(h, self, from_, to_) == _connect_disconnect(h, self, from_, to_, FALSE)

disconnect(h, self, from_, to_) == _connect_disconnect(h, self, from_, to_, TRUE)

(***************************************************************************)
(* Component.add_computation                                               *)
(***************************************************************************)
(* Computation.__init__ *)
NewComputation(method, component, input_sockets, output_sockets, flags) ==
    [method |-> method, component |-> component,
     input_sockets |-> input_sockets, output_sockets |-> output_sockets,
     flatten_ops |-> flags.flatten_ops, split_ops |-> flags.split_ops,
     add_auto_key_as_first_param |-> flags.add_auto_key_as_first_param,
     unflatten_ops |-> flags.unflatten_ops]

(* The four flag arguments of add_computation: each "None", "True" or
   "False". *)
Flags(flatten_ops, split_ops, add_auto_key_as_first_param, unflatten_ops) ==
    [flatten_ops |-> flatten_ops, split_ops |-> split_ops,
     add_auto_key_as_first_param |-> add_auto_key_as_first_param,
     unflatten_ops |-> unflatten_ops]

NoFlags == Flags("None", "None", "None", "None")

(* self.computation_settings.get(key, default) *)
settings_get(settings, key, default) ==
    IF DictHasKey(settings, key)
    THEN (CHOOSE e \in settings : e[1] = key)[2]
    ELSE default

(* "if not flag: flag = self.computation_settings.get(key, default)": None
   and False are both falsy. *)
fetch_default_param(flag, settings, key, default) ==
    IF flag \in {"None", "False"} THEN settings_get(settings, key, default) ELSE flag

(* "Fetch default params." *)
fetch_default_params(h, self, flags) ==
    Flags(fetch_default_param(flags.flatten_ops,
                              h.comps[self].computation_settings, "flatten_ops", "True"),
          fetch_default_param(flags.split_ops,
                              h.comps[self].computation_settings, "split_ops", "False"),
          fetch_default_param(flags.add_auto_key_as_first_param,
                              h.comps[self].computation_settings,
                              "add_auto_key_as_first_param", "False"),
          fetch_default_param(flags.unflatten_ops,
                              h.comps[self].computation_settings, "unflatten_ops", "True"))

(* for input_socket in input_sockets: input_socket.connect_to(computation) *)
RECURSIVE connect_all_to(_, _, _)
connect_all_to(h, sockets, ref) ==
    IF sockets = << >> THEN h
    ELSE connect_all_to(connect_to(h, Head(sockets), ref), Tail(sockets), ref)

(* for output_socket in output_sockets: output_socket.connect_from(computation) *)
RECURSIVE connect_all_from(_, _, _)
connect_all_from(h, sockets, ref) ==
    IF sockets = << >> THEN h
    ELSE connect_all_from(connect_from(h, Head(sockets), ref), Tail(sockets), ref)

(* file_no_input_computation that files every Computation. *)
file_no_input_computation_always(h, self, input_sockets, computation) ==
    [h EXCEPT !.comps[self].no_input_computations = Append(@, computation)]

(* "If the Computation has no inputs, we need to build it from no-input." *)
file_no_input_computation(h, self, input_sockets, computation) ==
    IF Len(input_sockets) = 0
    THEN [h EXCEPT !.comps[self].no_input_computations = Append(@, computation)]
    ELSE h

(* The Computation is created and connected to the Sockets found. *)
register_computation(h, self, method, flags, input_sockets, output_sockets, computation) ==
    file_no_input_computation(
        connect_all_from(
            connect_all_to(
                [h EXCEPT !.computations =
                    Append(@, NewComputation(method, self, input_sockets, output_sockets,
                                            fetch_default_params(h, self, flags)))],
                input_sockets, ComputationRef(computation)),
            output_sockets, ComputationRef(computation)),
        self, input_sockets, computation)

(* Computation.__init__ resolves a method given by name on the Component:
   the member _computation_<method> has to exist. *)
method_is_defined(h, component, method) == method \in h.comps[component].methods

(* add_computation_outputs that registers the Computation whatever its
   method. *)
add_computation_outputs_unbound(self, method, flags, input_sockets, outs) ==
    IF outs.err # "none" THEN outs
    ELSE Result(register_computation(outs.h, self, method, flags, input_sockets, outs.ret,
                                     Len(outs.h.computations) + 1),
                "none", NoObject)

(* outs is the outcome of the lookup of the output Sockets. *)
add_computation_outputs(self, method, flags, input_sockets, outs) ==
    IF outs.err # "none" THEN outs
    ELSE IF ~method_is_defined(outs.h, self, method)
    THEN Result(outs.h, "ConfigurationError", NoObject)
    ELSE Result(register_computation(outs.h, self, method, flags, input_sockets, outs.ret,
                                     Len(outs.h.computations) + 1),
                "none", NoObject)

(* add_computation_inputs that looks the output Sockets up without creating
   the missing ones. *)
add_computation_inputs_strict_outputs(self, outputs, method, flags, ins) ==
    IF ins.err # "none" THEN ins
    ELSE IF \E i \in 1..Len(outputs) :
                get_socket_by_name(ins.h, self, outputs[i].name, "none") = NoObject
    THEN Result(ins.h, "SocketNotFoundError", NoObject)
    ELSE add_computation_outputs(self, method, flags, ins.ret,
                                 get_sockets_create(ins.h, self, outputs, << >>))

(* ins is the outcome of the lookup of the input Sockets. *)
add_computation_inputs(self, outputs, method, flags, ins) ==
    IF ins.err # "none" THEN ins
    ELSE add_computation_outputs(self, method, flags, ins.ret,
                                 get_sockets_create(ins.h, self, outputs, << >>))

(* add_computation that takes any of the members when method is omitted and
   there are several. *)
add_computation_any_method(h, self, inputs, outputs, method, flags) ==
    IF method = "none" /\ Cardinality(h.comps[self].methods) < 1
    THEN Result(h, "ConfigurationError", NoObject)
    ELSE add_computation_inputs(
             self, outputs,
             IF method = "none" THEN CHOOSE x \in h.comps[self].methods : TRUE ELSE method,
             flags,
             get_sockets_create(h, self, inputs, << >>))

(* inputs and outputs are lists of socket specifiers; method is a method name
   or "none"; flags are the four flag arguments; h.comps[self].methods are the names (without the prefix) of the
   callable members of self that start with _computation_. *)
add_computation(h, self, inputs, outputs, method, flags) ==
    IF method = "none" /\ Cardinality(h.comps[self].methods) # 1
    THEN Result(h, "ConfigurationError", NoObject)
    ELSE add_computation_inputs(
             self, outputs,
             IF method = "none" THEN CHOOSE x \in h.comps[self].methods : TRUE ELSE method,
             flags,
             get_sockets_create(h, self, inputs, << >>))

(***************************************************************************)
(* Component.define_inputs / define_outputs                                *)
(***************************************************************************)
(* for socket in sockets: self.connect(space, self.get_socket(socket).name) *)
RECURSIVE define_inputs_loop(_, _, _, _)
RECURSIVE define_inputs_connected(_, _, _, _)
RECURSIVE define_inputs_found(_, _, _, _, _)
define_inputs_connected(self, sockets, space, r) ==
    IF r.err # "none" THEN r
    ELSE define_inputs_loop(r.h, self, Tail(sockets), space)

define_inputs_found(h, self, sockets, space, g) ==
    IF g.err # "none" THEN g
    ELSE define_inputs_connected(self, sockets, space,
             connect(h, self, SpaceSpec(space), NameSpec(h.socks[g.ret].name)))

define_inputs_loop(h, self, sockets, space) ==
    IF sockets = << >> THEN Result(h, "none", NoObject)
    ELSE define_inputs_found(h, self, sockets, space,
                             get_socket(h, self, NameSpec(Head(sockets)), "none", FALSE))

(* added is the outcome of the call of self.add_sockets with type "in". *)
define_inputs_added(self, sockets, space, added) ==
    IF added.err # "none" THEN added
    ELSE IF space = "none" THEN added
    ELSE define_inputs_loop(added.h, self, sockets, space)

(* space is a Space or "none". *)
define_inputs(h, self, sockets, space) ==
    define_inputs_added(self, sockets, space, add_sockets(h, self, sockets, "in", FALSE))

define_outputs(h, self, sockets) == add_sockets(h, self, sockets, "out", FALSE)

(***************************************************************************)
(* Component.add_component / add_components                                *)
(***************************************************************************)
(* The `connect` argument: None, a list of (old, new) entries (a str entry e
   is (e, e)), True, an int (CONNECT_INS, CONNECT_OUTS) or a single name. *)
ConnectNone == [kind |-> "none", value |-> 0, name |-> "", entries |-> << >>]
ConnectList(entries) == [kind |-> "list", value |-> 0, name |-> "", entries |-> entries]
ConnectTrue == [kind |-> "true", value |-> 1, name |-> "True", entries |-> << >>]
ConnectInt(v) ==
    [kind |-> "int", value |-> v,
     name |-> (IF v = CONNECT_INS THEN "1" ELSE "2"), entries |-> << >>]
ConnectName(name) == [kind |-> "name", value |-> 0, name |-> name, entries |-> << >>]

(* connect_spec[k] = v on an insertion-ordered dict held as a list of items. *)
ItemsSet(items, k, v) ==
    IF \E i \in 1..Len(items) : items[i][1] = k
    THEN [i \in 1..Len(items) |-> IF items[i][1] = k THEN <<k, v>> ELSE items[i]]
    ELSE Append(items, <<k, v>>)

RECURSIVE ItemsFrom(_, _)
ItemsFrom(entries, items) ==
    IF entries = << >> THEN items
    ELSE ItemsFrom(Tail(entries), ItemsSet(items, Head(entries)[1], Head(entries)[2]))

SocketNamesOf(h, list_) ==
    [i \in 1..Len(list_) |-> <<h.socks[list_[i]].name, h.socks[list_[i]].name>>]

(* connect_list after the two `extend` calls; True == 1 in Python, so True
   passes the test `connect == CONNECT_INS`. *)
connect_list_of(h, component, is_true, eq_ins, eq_outs) ==
    (IF eq_ins \/ is_true THEN h.comps[component].input_sockets ELSE << >>)
        \o (IF eq_outs \/ is_true THEN h.comps[component].output_sockets ELSE << >>)

(* "Expose all Sockets if connect=True|CONNECT_INS|CONNECT_OUTS", or the
   single name. *)
connect_spec_of_list(h, connect_, connect_list) ==
    IF Len(connect_list) > 0
    THEN ItemsFrom(SocketNamesOf(h, connect_list), << >>)
    ELSE <<<<connect_.name, connect_.name>>>>

(* connect_spec_of in which connect=True selects the in-Sockets only. *)
connect_spec_of_true_is_ins(h, component, connect_) ==
    IF connect_.kind = "none" THEN << >>
    ELSE IF connect_.kind = "list" THEN ItemsFrom(connect_.entries, << >>)
    ELSE connect_spec_of_list(h, connect_,
             connect_list_of(h, component, FALSE,
                 connect_.kind \in {"true", "int"} /\ connect_.value = CONNECT_INS,
                 connect_.kind \in {"true", "int"} /\ connect_.value = CONNECT_OUTS))

(* "Preprocess the connect spec": the items of connect_spec, in order. *)
connect_spec_of(h, component, connect_) ==
    IF connect_.kind = "none" THEN << >>
    ELSE IF connect_.kind = "list" THEN ItemsFrom(connect_.entries, << >>)
    ELSE connect_spec_of_list(h, connect_,
             connect_list_of(h, component, connect_.kind = "true",
                 connect_.kind \in {"true", "int"} /\ connect_.value = CONNECT_INS,
                 connect_.kind \in {"true", "int"} /\ connect_.value = CONNECT_OUTS))

(* "Expose all Sockets in exposed_spec": the loop over connect_spec.items();
   expose_socket, expose_added and expose_connected are the steps of one
   iteration. *)
RECURSIVE expose_loop(_, _, _, _)
RECURSIVE expose_socket(_, _, _, _, _)
RECURSIVE expose_added(_, _, _, _, _)
RECURSIVE expose_connected(_, _, _, _)
expose_connected(self, component, items, connected) ==
    IF connected.err # "none" THEN connected
    ELSE expose_loop(connected.h, self, component, Tail(items))

(* added is the outcome of "Doesn't exist yet -> add it". *)
expose_added(self, component, items, type_, added) ==
    IF added.err # "none" THEN added
    ELSE expose_connected(self, component, items,
             connect(added.h, self,
                     IF type_ = "in" THEN NameSpec(Head(items)[2])
                     ELSE PairSpec(component, Head(items)[1]),
                     IF type_ = "in" THEN PairSpec(component, Head(items)[1])
                     ELSE NameSpec(Head(items)[2])))

(* expose_socket that adds the missing Socket as an in-Socket whatever the
   type of the sub-component's Socket. *)
expose_socket_always_in(h, self, component, items, socket) ==
    IF socket = NoObject THEN Result(h, "SocketNotFoundError", NoObject)
    ELSE expose_added(self, component, items, h.socks[socket].type,
             IF get_socket_by_name(h, self, Head(items)[2], "none") = NoObject
             THEN add_sockets(h, self, <<Head(items)[2]>>, "in", FALSE)
             ELSE Result(h, "none", NoObject))

(* socket is the outcome of get_socket_by_name(component, socket_name). *)
expose_socket(h, self, component, items, socket) ==
    IF socket = NoObject THEN Result(h, "SocketNotFoundError", NoObject)
    ELSE expose_added(self, component, items, h.socks[socket].type,
             IF get_socket_by_name(h, self, Head(items)[2], "none") = NoObject
             THEN add_sockets(h, self, <<Head(items)[2]>>, h.socks[socket].type, FALSE)
             ELSE Result(h, "none", NoObject))

expose_loop(h, self, component, items) ==
    IF items = << >> THEN Result(h, "none", NoObject)
    ELSE expose_socket(h, self, component, items,
                       get_socket_by_name(h, component, Head(items)[1], "none"))

(* component.has_been_added = True; self.sub_components[component.name] = component *)
register_component(h, self, component) ==
    [h EXCEPT !.comps[component].has_been_added = TRUE,
              !.comps[self].sub_components = DictSet(@, h.comps[component].name, component)]

(* add_component without the has_been_added check. *)
add_component_unchecked(h, self, component, connect_) ==
    IF DictHasKey(h.comps[self].sub_components, h.comps[component].name)
    THEN Result(h, "DuplicateComponentError", NoObject)
    ELSE expose_loop(register_component(h, self, component), self, component,
                     connect_spec_of(h, component, connect_))

(* add_component without the check of the name. *)
add_component_unnamed(h, self, component, connect_) ==
    IF h.comps[component].has_been_added = TRUE
    THEN Result(h, "AlreadyAddedError", NoObject)
    ELSE expose_loop(register_component(h, self, component), self, component,
                     connect_spec_of(h, component, connect_))

(* add_component that does not set has_been_added. *)
add_component_unmarked(h, self, component, connect_) ==
    IF DictHasKey(h.comps[self].sub_components, h.comps[component].name)
    THEN Result(h, "DuplicateComponentError", NoObject)
    ELSE IF h.comps[component].has_been_added = TRUE
    THEN Result(h, "AlreadyAddedError", NoObject)
    ELSE expose_loop([h EXCEPT !.comps[self].sub_components =
                         DictSet(@, h.comps[component].name, component)],
                     self, component, connect_spec_of(h, component, connect_))

add_component(h, self, component, connect_) ==
    IF DictHasKey(h.comps[self].sub_components, h.comps[component].name)
    THEN Result(h, "DuplicateComponentError", NoObject)
    ELSE IF h.comps[component].has_been_added = TRUE
    THEN Result(h, "AlreadyAddedError", NoObject)
    ELSE expose_loop(register_component(h, self, component), self, component,
                     connect_spec_of(h, component, connect_))

(* expose is a connect argument passed as-is for each component, or a dict
   (a set of <<component name, connect argument>> items; a missing key gives
   None). *)
ExposeFor(h, c, expose) ==
    IF expose.kind = "dict"
    THEN IF DictHasKey(expose.items, h.comps[c].name)
         THEN (CHOOSE e \in expose.items : e[1] = h.comps[c].name)[2]
         ELSE ConnectNone
    ELSE expose.arg

ExposeAsIs(connect_) == [kind |-> "as_is", arg |-> connect_, items |-> {}]
ExposeDict(items) == [kind |-> "dict", arg |-> ConnectNone, items |-> items]

RECURSIVE add_components(_, _, _, _)
RECURSIVE add_components_next(_, _, _, _)
add_components_next(self, components, expose, r) ==
    IF r.err # "none" THEN r
    ELSE add_components(r.h, self, Tail(components), expose)

add_components(h, self, components, expose) ==
    IF components = << >> THEN Result(h, "none", NoObject)
    ELSE add_components_next(self, components, expose,
             add_component(h, self, Head(components),
                           ExposeFor(h, Head(components), expose)))

(***************************************************************************)
(* Component.copy                                                          *)
(***************************************************************************)
RefsOf(conns, kind) == {conns[i].id : i \in {j \in 1..Len(conns) : conns[j].kind = kind}}

(* One more round of following the fields of the objects in C, S and K. *)
ComponentsFrom(h, C, S, K) ==
    C \cup UNION {DictValues(h.comps[c].sub_components) : c \in C}
      \cup {h.socks[s].component : s \in S}
      \cup {h.computations[k].component : k \in K}

SocketsFrom(h, C, S, K) ==
    S \cup UNION {SeqToSet(AllSockets(h, c)) : c \in C}
      \cup UNION {RefsOf(h.socks[s].incoming_connections \o h.socks[s].outgoing_connections,
                         "socket") : s \in S}
      \cup UNION {SeqToSet(h.computations[k].input_sockets \o h.computations[k].output_sockets)
                     : k \in K}

ComputationsFrom(h, C, S, K) ==
    K \cup UNION {SeqToSet(h.comps[c].no_input_computations) : c \in C}
      \cup UNION {RefsOf(h.socks[s].incoming_connections \o h.socks[s].outgoing_connections,
                         "computation") : s \in S}

(* The objects copy.deepcopy(self) visits: everything reachable from a set
   of Components C, Sockets S and Computations K through object fields. *)
RECURSIVE Reachable(_, _, _, _)
RECURSIVE ReachableNext(_, _, _, _, _)
ReachableNext(h, C, S, K, next) ==
    IF next = [C |-> C, S |-> S, K |-> K] THEN next
    ELSE Reachable(h, next.C, next.S, next.K)

Reachable(h, C, S, K) ==
    ReachableNext(h, C, S, K, [C |-> ComponentsFrom(h, C, S, K),
                               S |-> SocketsFrom(h, C, S, K),
                               K |-> ComputationsFrom(h, C, S, K)])

(* The identity of the copy of object x: the copies of the set R of visited
   objects are appended to the heap's sequence, which has n objects. *)
CopyOf(R, n, x) == n + Cardinality({y \in R : y <= x})

(* The i-th object of R in increasing order. *)
Nth(R, i) == CHOOSE x \in R : Cardinality({y \in R : y <= x}) = i

MapSeq(list_, R, n) == [i \in 1..Len(list_) |-> CopyOf(R, n, list_[i])]

(* The copy of an entry of a connection list, of a Component, a Socket and a
   Computation: the references are to the copies. *)
CopyOfConnection(h, R, e) ==
    IF e.kind = "socket" THEN SocketRef(CopyOf(R.S, Len(h.socks), e.id))
    ELSE IF e.kind = "computation" THEN ComputationRef(CopyOf(R.K, Len(h.computations), e.id))
    ELSE e

CopyOfConnections(h, R, list_) == [i \in 1..Len(list_) |-> CopyOfConnection(h, R, list_[i])]

CopyOfComponent(h, R, c) ==
    [h.comps[c] EXCEPT
        !.variables = {<<e[1], h.nvars + e[2]>> : e \in @},
        !.sub_components = {<<e[1], CopyOf(R.C, Len(h.comps), e[2])>> : e \in @},
        !.input_sockets = MapSeq(@, R.S, Len(h.socks)),
        !.output_sockets = MapSeq(@, R.S, Len(h.socks)),
        !.internal_sockets = MapSeq(@, R.S, Len(h.socks)),
        !.no_input_computations = MapSeq(@, R.K, Len(h.computations))]

CopyOfSocket(h, R, s) ==
    [h.socks[s] EXCEPT
        !.component = CopyOf(R.C, Len(h.comps), @),
        !.incoming_connections = CopyOfConnections(h, R, @),
        !.outgoing_connections = CopyOfConnections(h, R, @)]

CopyOfComputation(h, R, k) ==
    [h.computations[k] EXCEPT
        !.component = CopyOf(R.C, Len(h.comps), @),
        !.input_sockets = MapSeq(@, R.S, Len(h.socks)),
        !.output_sockets = MapSeq(@, R.S, Len(h.socks))]

(* The heap with the copies of the objects R added, and the copy of self. *)
deepcopy_of(h, self, R) ==
    Result([comps |-> h.comps \o [i \in 1..Cardinality(R.C) |->
                                     CopyOfComponent(h, R, Nth(R.C, i))],
            socks |-> h.socks \o [i \in 1..Cardinality(R.S) |->
                                     CopyOfSocket(h, R, Nth(R.S, i))],
            computations |-> h.computations \o [i \in 1..Cardinality(R.K) |->
                                     CopyOfComputation(h, R, Nth(R.K, i))],
            nvars |-> 2 * h.nvars,
            explorations |-> h.explorations,
            workers |-> h.workers,
            transposes |-> h.transposes],
           "none", CopyOf(R.C, Len(h.comps), self))

(* copy.deepcopy(self): every object reachable from self is copied once and
   the references between the copies mirror those between the originals;
   Spaces are immutable values.  Returns the heap with the copies added and
   the identity of the copy of self. *)
deepcopy(h, self) == deepcopy_of(h, self, Reachable(h, {self}, {}, {}))

(* for socket in sockets: socket.incoming_connections = list() *)
RECURSIVE reset_incoming(_, _)
reset_incoming(h, sockets) ==
    IF sockets = << >> THEN h
    ELSE reset_incoming([h EXCEPT !.socks[Head(sockets)].incoming_connections = << >>],
                        Tail(sockets))

(* for socket in sockets: socket.outgoing_connections = list() *)
RECURSIVE reset_outgoing(_, _)
reset_outgoing(h, sockets) ==
    IF sockets = << >> THEN h
    ELSE reset_outgoing([h EXCEPT !.socks[Head(sockets)].outgoing_connections = << >>],
                        Tail(sockets))

(* The cut of the copy's outside connections that leaves the incoming
   connections of the in-Sockets in place. *)
copy_cut_keeps_incoming(copied, name, scope) ==
    Result(reset_outgoing(
               [copied.h EXCEPT !.comps[copied.ret].name = name,
                                !.comps[copied.ret].scope = scope],
               copied.h.comps[copied.ret].output_sockets),
           "none", copied.ret)

(* new_component.name = name; new_component.scope = scope, and "cut all the
   new_component's outside connections": copied is the outcome of deepcopy.
   The lists of Sockets of the copy are not changed by the cuts. *)
copy_cut(copied, name, scope) ==
    Result(reset_outgoing(
               reset_incoming(
                   [copied.h EXCEPT !.comps[copied.ret].name = name,
                                    !.comps[copied.ret].scope = scope],
                   copied.h.comps[copied.ret].input_sockets),
               copied.h.comps[copied.ret].output_sockets),
           "none", copied.ret)

(* copy_as in which a copy without a name keeps the name of the original. *)
copy_as_keeps_name(h, self, name, scope) ==
    copy_cut(deepcopy(h, self), IF name = "none" THEN h.comps[self].name ELSE name, scope)

(* name and scope after the two `is None` tests. *)
copy_as(h, self, name, scope) ==
    copy_cut(deepcopy(h, self), IF name = "none" THEN scope ELSE name, scope)

(* name and scope are a str or "none" (None). *)
copy(h, self, name, scope) ==
    copy_as(h, self, name, IF scope = "none" THEN h.comps[self].scope ELSE scope)

(***************************************************************************)
(* The builder (Model), which drives the Components: it marks a Component  *)
(* input-complete once every one of its in-Sockets has a resolved Space.   *)
(***************************************************************************)
(* The Sockets that have a Space: one is connected to them, or a Socket that
   has one is. *)
RECURSIVE ResolvedSockets(_, _)
RECURSIVE ResolvedNext(_, _, _)
ResolvedNext(h, S, next) == IF next = S THEN S ELSE ResolvedSockets(h, next)

ResolvedSockets(h, S) ==
    ResolvedNext(h, S, S \cup {s \in 1..Len(h.socks) :
                     \/ RefsOf(h.socks[s].incoming_connections, "space") # {}
                     \/ RefsOf(h.socks[s].incoming_connections, "socket") \cap S # {}})

InputsResolved(h, c) ==
    SeqToSet(h.comps[c].input_sockets) \subseteq ResolvedSockets(h, {})

build_input_complete(h, c) ==
    IF ~h.comps[c].input_complete /\ InputsResolved(h, c)
    THEN Result([h EXCEPT !.comps[c].input_complete = TRUE], "none", NoObject)
    ELSE Result(h, "none", NoObject)

(***************************************************************************)
(* Component.get_variable / get_variables                                  *)
(***************************************************************************)
(* tf.get_variable / Space.get_tensor_variable: the backend hands out a new
   variable object, or refuses the name ("conflict"). *)
backend_variable(h, outcome) ==
    IF outcome = "conflict"
    THEN Result(h, "NameConflictError", NoObject)
    ELSE Result([h EXCEPT !.nvars = @ + 1], "none", h.nvars + 1)

(* var after "Called as setter": how is "from_space" or "shape"; with a
   backend other than "tf", var stays None for a creation by shape. *)
create_variable(h, how, backend_, outcome) ==
    IF how = "from_space" THEN backend_variable(h, outcome)
    ELSE IF backend_ = "tf" THEN backend_variable(h, outcome)
    ELSE Result(h, "none", NoObject)

(* register_variable that keeps the entry a name already has. *)
register_variable_first_wins(self, name, var) ==
    IF var.err # "none" THEN var
    ELSE IF DictHasKey(var.h.comps[self].variables, name) THEN var
    ELSE Result([var.h EXCEPT !.comps[self].variables = DictSet(@, name, var.ret)],
                "none", var.ret)

(* "Registers the new variable in this Component": self.variables[name] = var;
   return var. *)
register_variable(self, name, var) ==
    IF var.err # "none" THEN var
    ELSE Result([var.h EXCEPT !.comps[self].variables = DictSet(@, name, var.ret)],
                "none", var.ret)

(* self.variables[name] *)
variables_get(h, self, name) == (CHOOSE e \in h.comps[self].variables : e[1] = name)[2]

(* how is "getter" (no shape, initializer or from_space given), "shape" or
   "from_space"; backend_ is the value of backend(); outcome is what the
   backend does with a creation. *)
get_variable(h, self, name, how, backend_, outcome) ==
    IF how = "getter"
    THEN IF ~DictHasKey(h.comps[self].variables, name)
         THEN Result(h, "VariableNotFoundError", NoObject)
         ELSE Result(h, "none", variables_get(h, self, name))
    ELSE register_variable(self, name, create_variable(h, how, backend_, outcome))

(* get_variables that raises for a name that is not registered. *)
get_variables_strict(h, self, names, collection_variables) ==
    IF Len(names) = 0
    THEN Result(h, "none",
                {e \in collection_variables : DictHasKey(h.comps[self].variables, e[1])})
    ELSE IF \E i \in 1..Len(names) : ~DictHasKey(h.comps[self].variables, names[i])
    THEN Result(h, "VariableNotFoundError", {})
    ELSE Result(h, "none", {e \in h.comps[self].variables : e[1] \in SeqToSet(names)})

(* names is the list of names after force_list; collection_variables are the
   <<v.name, v>> of the variables tf.get_collection(collection) returns.  The
   dict returned is a set of <<name, variable>> items. *)
get_variables(h, self, names, collection_variables) ==
    IF Len(names) = 0
    THEN Result(h, "none",
                {e \in collection_variables : DictHasKey(h.comps[self].variables, e[1])})
    ELSE Result(h, "none", {e \in h.comps[self].variables : e[1] \in SeqToSet(names)})

(***************************************************************************)
(* Exploration (rlgraph/components/explorations/exploration.py).  The      *)
(* Exploration objects and the components made from their specs live in    *)
(* h.explorations.                                                         *)
(***************************************************************************)
(* A spec argument is None, an empty (falsy) spec or a spec. *)
EpsilonSpecs == {"None", "empty", "decay"}
NoiseSpecs == {"None", "empty", "gaussian"}

(* Python's truth value of a spec argument. *)
IsTruthy(spec) == spec \notin {"None", "empty"}

(* The fields of an object right after Component.__init__ and lines 53-56. *)
NewExploration(class, spec) ==
    [class |-> class, spec |-> spec,
     action_space |-> "None",
     epsilon_exploration |-> NoObject, noise_component |-> NoObject,
     sub_components |-> {},
     api_methods |-> {}]

(* EpsilonExploration.from_spec / NoiseComponent.from_spec: a new component
   of the class, made from the spec. *)
from_spec(h, class, spec) ==
    Result([h EXCEPT !.explorations = Append(@, NewExploration(class, spec))],
           "none", Len(h.explorations) + 1)

(* self.add_components(component) of the rlgraph Component: component becomes
   a sub-component of self under its name. *)
add_sub_component(h, self, name, component) ==
    [h EXCEPT !.explorations[self].sub_components = DictSet(@, name, component)]

(* self.define_api_method(name, func) *)
define_api_method(h, self, name, func) ==
    [h EXCEPT !.explorations[self].api_methods = DictSet(@, name, func)]

(* "Add epsilon component": made is the outcome of from_spec, self the new
   Exploration. *)
add_epsilon_component(self, made) ==
    define_api_method(
        add_sub_component(
            [made.h EXCEPT !.explorations[self].epsilon_exploration = made.ret],
            self, "epsilon-exploration", made.ret),
        self, "get_action", "epsilon")

(* "Add noise component". *)
add_noise_component(self, made) ==
    define_api_method(
        add_sub_component(
            [made.h EXCEPT !.explorations[self].noise_component = made.ret],
            self, "noise", made.ret),
        self, "get_action", "noise")

(* The if / elif / else of lines 63-86 and line 88, on the heap h that holds
   the new Exploration self. *)
Exploration_components(h, self, epsilon_spec, noise_spec) ==
    IF IsTruthy(epsilon_spec)
    THEN add_epsilon_component(self, from_spec(h, "EpsilonExploration", epsilon_spec))
    ELSE IF IsTruthy(noise_spec)
    THEN add_noise_component(self, from_spec(h, "NoiseComponent", noise_spec))
    ELSE define_api_method(h, self, "get_action", "pass_through")

(* Exploration.__init__ without the test of lines 59-60. *)
Exploration_unchecked(h, epsilon_spec, noise_spec) ==
    Result(Exploration_components(
               [h EXCEPT !.explorations = Append(@, NewExploration("Exploration", "None"))],
               Len(h.explorations) + 1, epsilon_spec, noise_spec),
           "none", Len(h.explorations) + 1)

(* Exploration(epsilon_spec, noise_spec): the object of a constructor that
   raises is dropped. *)
Exploration(h, epsilon_spec, noise_spec) ==
    IF IsTruthy(epsilon_spec) /\ IsTruthy(noise_spec)
    THEN Result(h, "ConfigurationError", NoObject)
    ELSE Result(Exploration_components(
               [h EXCEPT !.explorations = Append(@, NewExploration("Exploration", "None"))],
               Len(h.explorations) + 1, epsilon_spec, noise_spec),
           "none", Len(h.explorations) + 1)

(* sanity_check_space(self.action_space, allowed_types=...) of lines 101-105:
   an IntBox for epsilon exploration, a FloatBox for a noise component. *)
action_space_allowed(h, self, action_space) ==
    IF h.explorations[self].epsilon_exploration # NoObject
    THEN action_space = "IntBox"
    ELSE IF h.explorations[self].noise_component # NoObject
    THEN action_space = "FloatBox"
    ELSE TRUE

(* has_batch_rank tells whether input_spaces["actions"] has a batch rank;
   action_space is "None", "IntBox" or "FloatBox".  h is the heap after
   self.action_space = action_space. *)
check_action_space(h, self, action_space) ==
    IF /\ h.explorations[self].epsilon_exploration # NoObject
       /\ h.explorations[self].noise_component # NoObject
    THEN Result(h, "ConfigurationError", NoObject)
    ELSE IF ~action_space_allowed(h, self, action_space)
    THEN Result(h, "SpaceCheckError", NoObject)
    ELSE Result(h, "none", NoObject)

check_input_spaces(h, self, has_batch_rank, action_space) ==
    IF ~has_batch_rank THEN Result(h, "SpaceCheckError", NoObject)
    ELSE IF action_space = "None" THEN Result(h, "AssertionError", NoObject)
    ELSE check_action_space([h EXCEPT !.explorations[self].action_space = action_space],
                            self, action_space)

(* tf.where(condition, x, y), elementwise over the batch. *)
tf_where(condition, x, y) ==
    [i \in 1..Len(condition) |-> IF condition[i] THEN x[i] ELSE y[i]]

(* use_exploration is the Python bool "False" or "True", or a bool tensor
   "tensor_false" or "tensor_true": the condition passed to tf.where. *)
pick_condition(use_exploration, epsilon_decisions) ==
    IF use_exploration = "True" THEN epsilon_decisions
    ELSE [i \in 1..Len(epsilon_decisions) |->
             use_exploration = "tensor_true" /\ epsilon_decisions[i]]

(* _graph_fn_pick that lets the epsilon decisions alone decide. *)
_graph_fn_pick_ignores_switch(h, self, backend_, use_exploration, epsilon_decisions, sample, random_actions) ==
    IF backend_ # "tf" THEN Result(h, "none", NoObject)
    ELSE IF h.explorations[self].action_space = "None"
    THEN Result(h, "AttributeError", NoObject)
    ELSE Result(h, "none", tf_where(epsilon_decisions, random_actions, sample))

(* random_actions is what tf.random_uniform(shape of sample, maxval =
   num_categories) draws; with a backend other than "tf" the method returns
   None. *)
_graph_fn_pick(h, self, backend_, use_exploration, epsilon_decisions, sample, random_actions) ==
    IF backend_ # "tf" THEN Result(h, "none", NoObject)
    ELSE IF h.explorations[self].action_space = "None"
    THEN Result(h, "AttributeError", NoObject)
    ELSE IF use_exploration = "False" THEN Result(h, "none", sample)
    ELSE Result(h, "none",
                tf_where(pick_condition(use_exploration, epsilon_decisions),
                         random_actions, sample))

(* tf.cond(use_exploration, sample + noise, sample) *)
_graph_fn_add_noise(h, backend_, use_exploration, noise, sample) ==
    IF backend_ # "tf" THEN Result(h, "none", NoObject)
    ELSE IF use_exploration \in {"True", "tensor_true"}
    THEN Result(h, "none", [i \in 1..Len(sample) |-> sample[i] + noise[i]])
    ELSE Result(h, "none", sample)

(* The get_action that __init__ defined for self: epsilon_decisions is what
   epsilon_exploration.do_explore returns for the time step, noise what
   noise_component.get_noise returns. *)
get_action(h, self, backend_, actions, use_exploration, epsilon_decisions, random_actions, noise) ==
    IF <<"get_action", "epsilon">> \in h.explorations[self].api_methods
    THEN _graph_fn_pick(h, self, backend_, use_exploration, epsilon_decisions,
                        actions, random_actions)
    ELSE IF <<"get_action", "noise">> \in h.explorations[self].api_methods
    THEN _graph_fn_add_noise(h, backend_, use_exploration, noise, actions)
    ELSE Result(h, "none", actions)

(***************************************************************************)
(* IMPALAWorker: rollouts of one environment through an agent.             *)
(***************************************************************************)

(* A list entry that is the list object bound to self.<name>: the entry and
   the attribute are one object, so the entry reads what the attribute holds
   now. *)
list_object(name) == [list |-> name]

list_value(w, entry) ==
    IF entry.list = "episode_returns" THEN w.episode_returns ELSE w.episode_timesteps

(* The worker after the constructor: one environment, every statistic at
   zero and no environment state.  agent_calls, env_steps and env_resets count
   the calls the worker has made to its agent and to the step and the reset
   of its vector environment. *)
NewWorker ==
    [num_envs |-> 1,
     env_frames |-> 0,
     finished_episode_rewards |-> << >>,
     finished_episode_steps |-> << >>,
     episode_returns |-> <<0>>,
     episode_timesteps |-> <<0>>,
     episode_terminals |-> <<FALSE>>,
     env_states |-> <<"None">>,
     agent_calls |-> 0,
     env_steps |-> 0,
     env_resets |-> 0]

(* IMPALAWorker(environment_spec, agent) *)
IMPALAWorker(h, agent) ==
    IF agent # "IMPALAAgent"
    THEN Result(h, "AssertionError", NoObject)
    ELSE Result([h EXCEPT !.workers = Append(@, NewWorker)], "none", Len(h.workers) + 1)

put_worker(h, self, w) == [h EXCEPT !.workers[self] = w]

(* The names execute_timesteps can read: its parameters and the names it
   assigns, and the names the module binds. *)
execute_timesteps_locals ==
    {"self", "num_timesteps", "max_timesteps_per_episode", "update_spec",
     "use_exploration", "frameskip", "reset", "timesteps_executed",
     "episodes_executed", "start", "i", "actions", "preprocessed_states",
     "env_rewards", "next_states", "step_rewards", "infos", "step_reward",
     "num_timesteps_reached", "total_time", "mean_episode_runtime",
     "mean_episode_reward", "max_episode_reward", "final_episode_reward",
     "results"}

module_globals ==
    {"np", "range_", "time", "IMPALAAgent", "RLGraphError", "default_dict",
     "Worker", "IMPALAWorker"}

name_bound(name) == name \in execute_timesteps_locals \cup module_globals

(* The reset=True block without the zeroing of env_frames. *)
reset_counters_keeps_frames(w) ==
    [w EXCEPT !.finished_episode_rewards = << >>,
              !.finished_episode_steps = << >>,
              !.episode_returns = [i \in 1..w.num_envs |-> 0],
              !.episode_timesteps = [i \in 1..w.num_envs |-> 0],
              !.episode_terminals = [i \in 1..w.num_envs |-> FALSE]]

(* if reset is True: the statistics and the per-environment trackers are
   zeroed; the finished-episode lists are new lists. *)
reset_counters(w) ==
    [w EXCEPT !.env_frames = 0,
              !.finished_episode_rewards = << >>,
              !.finished_episode_steps = << >>,
              !.episode_returns = [i \in 1..w.num_envs |-> 0],
              !.episode_timesteps = [i \in 1..w.num_envs |-> 0],
              !.episode_terminals = [i \in 1..w.num_envs |-> FALSE]]

(* self.env_states[0] = self.agent.call_api_method("reset"); self.agent.reset() *)
reset_environment(w) ==
    [w EXCEPT !.env_states[1] = "state", !.agent_calls = @ + 2]

(* The frame the environment answers its t-th step of this call with; the
   behaviour env repeats. *)
frame_at(env, t) == env[(t % Len(env)) + 1]

(* for _ in range_(frameskip): the environment is stepped, its terminals
   replace episode_terminals, env_frames grows by num_envs and the reward is
   accumulated; a terminal ends the loop.  k frames are left, t steps were
   made in this call. *)
RECURSIVE step_frames(_, _, _, _, _)
step_frames(w, env, t, k, env_reward) ==
    IF k = 0
    THEN [w |-> w, t |-> t, env_reward |-> env_reward]
    ELSE IF frame_at(env, t).terminal
    THEN [w |-> [w EXCEPT !.episode_terminals = <<TRUE>>,
                          !.env_frames = @ + w.num_envs,
                          !.env_steps = @ + 1],
          t |-> t + 1,
          env_reward |-> env_reward + frame_at(env, t).reward]
    ELSE step_frames([w EXCEPT !.episode_terminals = <<FALSE>>,
                               !.env_frames = @ + w.num_envs,
                               !.env_steps = @ + 1],
                     env, t + 1, k - 1, env_reward + frame_at(env, t).reward)

(* The accounting of a finished episode of environment i: the list objects
   episode_returns and episode_timesteps themselves are appended, the
   environment is reset and the trackers' items are set to 0. *)
finish_episode(w, i) ==
    [w EXCEPT !.finished_episode_rewards = Append(@, list_object("episode_returns")),
              !.finished_episode_steps = Append(@, list_object("episode_timesteps")),
              !.env_states[i] = "state",
              !.env_resets = @ + 1,
              !.episode_returns[i] = 0,
              !.episode_timesteps[i] = 0]

(* The limit on the episode's length, after the trackers were advanced. *)
limit_episode(w, i, max_timesteps_per_episode) ==
    IF 0 < max_timesteps_per_episode /\ max_timesteps_per_episode <= w.episode_timesteps[i]
    THEN [w EXCEPT !.episode_terminals[i] = TRUE]
    ELSE w

(* agent.observe(...) of environment i *)
observe(w) == [w EXCEPT !.agent_calls = @ + 1]

(* The body of `for i in range_(self.num_envs)` for environment i, given the
   worker with its trackers advanced and the limit applied. *)
account_limited(w, i, episodes_executed) ==
    IF w.episode_terminals[i]
    THEN [w |-> observe(finish_episode(w, i)), episodes_executed |-> episodes_executed + 1]
    ELSE [w |-> observe(w), episodes_executed |-> episodes_executed]

account(w, i, env_reward, max_timesteps_per_episode, episodes_executed) ==
    account_limited(
        limit_episode([w EXCEPT !.episode_returns[i] = @ + env_reward,
                                !.episode_timesteps[i] = @ + 1],
                      i, max_timesteps_per_episode),
        i, episodes_executed)

(* The statistics dict, without the wall-clock entries and the means. *)
results(w, timesteps_executed, episodes_executed) ==
    [timesteps_executed |-> timesteps_executed,
     env_frames |-> w.env_frames,
     episodes_executed |-> episodes_executed,
     final_episode_reward |->
         IF Len(w.finished_episode_rewards) = 0
         THEN w.episode_returns[1]
         ELSE list_value(w, w.finished_episode_rewards[Len(w.finished_episode_rewards)])]

(* actions, preprocessed_states = self.agent.get_action(...) *)
agent_get_action(w) == [w EXCEPT !.agent_calls = @ + 1]

(* The while loop.  `while_loop` tests the loop's condition, `loop_body`
   picks an action and steps the environment, `loop_end` does the accounting
   and evaluates the break condition `0 < num_episodes <= episodes_executed or
   num_timesteps_reached`, whose first operand is the name num_episodes. *)
RECURSIVE while_loop(_, _, _, _, _, _, _, _, _, _)
loop_break(h, self, w, env, t, num_timesteps, max_timesteps_per_episode, frameskip, timesteps_executed, episodes_executed) ==
    IF ~name_bound("num_episodes")
    THEN Result(put_worker(h, self, w), "NameError", NoObject)
    ELSE IF 0 < num_timesteps /\ num_timesteps <= timesteps_executed
    THEN Result(put_worker(h, self, w), "none",
                results(w, timesteps_executed, episodes_executed))
    ELSE while_loop(h, self, w, env, t, num_timesteps, max_timesteps_per_episode,
                    frameskip, timesteps_executed, episodes_executed)

loop_end(h, self, acc, env, t, num_timesteps, max_timesteps_per_episode, frameskip, timesteps_executed) ==
    loop_break(h, self, [acc.w EXCEPT !.env_states = <<"state">>], env, t,
               num_timesteps, max_timesteps_per_episode, frameskip,
               timesteps_executed + acc.w.num_envs, acc.episodes_executed)

loop_body(h, self, stepped, env, num_timesteps, max_timesteps_per_episode, frameskip, timesteps_executed, episodes_executed) ==
    loop_end(h, self,
             account(stepped.w, 1, stepped.env_reward, max_timesteps_per_episode,
                     episodes_executed),
             env, stepped.t, num_timesteps, max_timesteps_per_episode, frameskip,
             timesteps_executed)

while_loop(h, self, w, env, t, num_timesteps, max_timesteps_per_episode, frameskip, timesteps_executed, episodes_executed) ==
    IF 0 < num_timesteps /\ num_timesteps <= timesteps_executed
    THEN Result(put_worker(h, self, w), "none",
                results(w, timesteps_executed, episodes_executed))
    ELSE loop_body(h, self, step_frames(agent_get_action(w), env, t, frameskip, 0),
                   env, num_timesteps, max_timesteps_per_episode, frameskip,
                   timesteps_executed, episodes_executed)

(* worker.execute_timesteps(num_timesteps, max_timesteps_per_episode,
   frameskip=frameskip, reset=reset) against an environment that behaves as
   env. *)
execute_timesteps(h, self, num_timesteps, max_timesteps_per_episode, frameskip, reset, env) ==
    IF reset = "True"
    THEN while_loop(h, self, reset_environment(reset_counters(h.workers[self])),
                    env, 0, num_timesteps, max_timesteps_per_episode, frameskip, 0, 0)
    ELSE IF h.workers[self].env_states[1] = "None"
    THEN Result(h, "RLGraphError", NoObject)
    ELSE while_loop(h, self, h.workers[self], env, 0, num_timesteps,
                    max_timesteps_per_episode, frameskip, 0, 0)

(***************************************************************************)
(* Transpose: the preprocessor that flips the batch and the time rank.     *)
(***************************************************************************)

(* class_(shape=..., add_batch_rank=..., add_time_rank=..., time_major=...):
   a primitive Space of that class. *)
NewSpace(class_, shape, add_batch_rank, add_time_rank, time_major) ==
    [class |-> class_, shape |-> shape, has_batch_rank |-> add_batch_rank,
     has_time_rank |-> add_time_rank, time_major |-> time_major]

(* A Dict Space of the given sub-Spaces. *)
DictSpace(spaces) == [class |-> "Dict", spaces |-> spaces]

(* The flat key of the sub-Space of a Dict under a name. *)
FlatKey == [a |-> "/a", b |-> "/b"]

NameOfKey(key) == CHOOSE n \in DOMAIN FlatKey : FlatKey[n] = key

(* space.flatten(): the primitive sub-Spaces by flat key; a primitive Space
   is its own only sub-Space, under the key "". *)
flatten(space) ==
    IF space.class = "Dict"
    THEN [key \in {FlatKey[n] : n \in DOMAIN space.spaces} |->
              space.spaces[NameOfKey(key)]]
    ELSE [key \in {""} |-> space]

(* unflatten_op(ret): the inverse of flatten. *)
unflatten_op(ret) ==
    IF DOMAIN ret = {""}
    THEN ret[""]
    ELSE DictSpace([n \in {NameOfKey(key) : key \in DOMAIN ret} |-> ret[FlatKey[n]]])

(* Transpose(): no output time-major recorded. *)
NewTranspose == [output_time_majors |-> {}]

Transpose(h) ==
    Result([h EXCEPT !.transposes = Append(@, NewTranspose)], "none",
           Len(h.transposes) + 1)

(* The Space of the same class with the time_major of single_space. *)
preprocessed_same_time_major(single_space) ==
    NewSpace(single_space.class, single_space.shape, single_space.has_batch_rank,
             single_space.has_time_rank, single_space.time_major)

(* ret[key]: the Space of the same class, shape and ranks with time_major
   negated. *)
preprocessed(single_space) ==
    NewSpace(single_space.class, single_space.shape, single_space.has_batch_rank,
             single_space.has_time_rank, ~single_space.time_major)

(* self.output_time_majors[key] = time_major, for every key of ret. *)
record_time_majors(output_time_majors, ret) ==
    {e \in output_time_majors : e[1] \notin DOMAIN ret}
        \cup {<<key, ret[key].time_major>> : key \in DOMAIN ret}

preprocessed_spaces(h, self, ret) ==
    Result([h EXCEPT !.transposes[self].output_time_majors = record_time_majors(@, ret)],
           "none", unflatten_op(ret))

get_preprocessed_space(h, self, space) ==
    preprocessed_spaces(h, self,
                        [key \in DOMAIN flatten(space) |-> preprocessed(flatten(space)[key])])

(* tf.transpose(preprocessing_inputs, perm=(1, 0) + the other ranks): the
   shape of the result. *)
tf_transpose(shape) ==
    [i \in 1..Len(shape) |-> IF i = 1 THEN shape[2] ELSE IF i = 2 THEN shape[1] ELSE shape[i]]

output_time_major(h, self, key) ==
    (CHOOSE e \in h.transposes[self].output_time_majors : e[1] = key)[2]

(* The op for the inputs of a key; with another backend than tf the method
   returns None. *)
_graph_fn_apply(h, self, backend_, key, preprocessing_inputs) ==
    IF backend_ # "tf"
    THEN Result(h, "none", "None")
    ELSE IF ~DictHasKey(h.transposes[self].output_time_majors, key)
    THEN Result(h, "KeyError", NoObject)
    ELSE Result(h, "none",
                [shape |-> tf_transpose(preprocessing_inputs),
                 _batch_rank |-> IF output_time_major(h, self, key) = FALSE THEN 0 ELSE 1,
                 _time_rank |-> IF output_time_major(h, self, key) = TRUE THEN 0 ELSE 1])

(***************************************************************************)
(* The state machine: a client that holds some Components and calls their  *)
(* methods, one call per step.                                             *)
(***************************************************************************)
VARIABLES
    heap,      \* the object graph
    handles,   \* the Components the client holds a reference to
    last,      \* the last call: [op, self, args, err, ret]
    pre,       \* the heap before the last call
    last2,     \* the call before the last call
    pre2,      \* the heap before that call
    nops       \* number of calls made

vars == <<heap, handles, last, pre, last2, pre2, nops>>

(* The client's program before the first step: a container P without
   Sockets and without computation methods, a layer Q (in-Socket "input",
   out-Socket "output" and one Computation of its only method between them,
   all set up in its constructor) and a Component R with two computation
   methods and one in-Socket "input". *)
Constructed ==
    [EmptyHeap EXCEPT !.comps = <<NewComponent("P", "P", {}, {}),
                                  NewComponent("Q", "Q", {"double"}, {}),
                                  NewComponent("R", "R", {"halve", "triple"},
                                               {<<"flatten_ops", "False">>,
                                                <<"split_ops", "True">>})>>]

InitHeap ==
    define_inputs(
        add_computation(
            define_outputs(
                define_inputs(Constructed, 2, <<"input">>, "none").h,
                2, <<"output">>).h,
            2, <<NameSpec("input")>>, <<NameSpec("output")>>, "none", NoFlags).h,
        3, <<"input">>, "none").h

InitHandles == {1, 2, 3}

Call(op, self, args, r) == [op |-> op, self |-> self, args |-> args, err |-> r.err, ret |-> r.ret]

InitCall == [op |-> "init", self |-> NoObject, args |-> << >>, err |-> "none", ret |-> NoObject]

Init ==
    /\ heap = InitHeap
    /\ handles = InitHandles
    /\ last = InitCall
    /\ pre = heap
    /\ last2 = InitCall
    /\ pre2 = heap
    /\ nops = 0

WithinBounds(h) ==
    /\ Len(h.comps) <= MaxComponents
    /\ Len(h.socks) <= MaxSockets
    /\ Len(h.computations) <= MaxComputations
    /\ Len(h.explorations) <= MaxExplorations
    /\ Len(h.workers) <= MaxWorkers
    /\ Len(h.transposes) <= MaxTransposes

(* One call, of at most `limit` calls: the heap becomes the call's heap, also
   when the call raised. *)
StepUpTo(limit, op, self, args, r) ==
    /\ nops < limit
    /\ WithinBounds(r.h)
    /\ heap' = r.h
    /\ handles' = IF op \in {"copy", "__init__"} /\ r.err = "none"
                  THEN handles \cup {r.ret} ELSE handles
    /\ last' = Call(op, self, args, r)
    /\ pre' = heap
    /\ last2' = last
    /\ pre2' = pre
    /\ nops' = nops + 1

Step(op, self, args, r) == StepUpTo(MaxOps, op, self, args, r)

(* The arguments the client draws from. *)
ConnectArgs == {ConnectNone, ConnectTrue, ConnectInt(CONNECT_OUTS),
                ConnectList(<<<<"output", "x">>>>)}
CopyNames == {"none", "Q2"}

(* <<sockets, type, internal>> of an add_sockets call. *)
AddSocketsArgs == {<<<<"x">>, "none", FALSE>>,
                   <<<<"x">>, "in", FALSE>>,
                   <<<<"input">>, "none", FALSE>>,
                   <<<<"output", "x">>, "none", FALSE>>,
                   <<<<"x">>, "out", TRUE>>}

(* <<sockets, type, internal>> of the add_sockets calls that leave the type
   to be inferred from the names. *)
InferredSocketsArgs ==
    {<<<<n>>, "none", FALSE>> : n \in SocketNames}
        \cup {<<<<"input", "output">>, "none", FALSE>>,
              <<<<"input", "x">>, "none", FALSE>>,
              <<<<"output", "my-input">>, "none", FALSE>>,
              <<<<"x", "input">>, "none", FALSE>>,
              <<<<"output_2", "output1input">>, "none", FALSE>>}

(* <<inputs, outputs, method>> of an add_computation call. *)
AddComputationArgs == {<<<<"x">>, <<"output">>, "none">>,
                       << << >>, <<"x">>, "double">>,
                       <<<<"input">>, <<"x">>, "double">>}

(* <<socket, type_, create_internal_if_not_found>> of a get_socket call. *)
GetSocketArgs == {<<NameSpec("x"), "in", TRUE>>,
                  <<NameSpec("output"), "in", TRUE>>,
                  <<PairSpec(2, "x"), "none", TRUE>>,
                  <<OnlySpec, "in", FALSE>>}

NameSpecs(names) == [i \in 1..Len(names) |-> NameSpec(names[i])]

(* Specifiers of the existing Sockets of the held Components, and a Space. *)
SocketEndpoints ==
    {e \in {PairSpec(c, heap.socks[s].name) : c \in handles, s \in 1..Len(heap.socks)} :
        get_socket_by_name(heap, e.c, e.name, "none") # NoObject}
AnyEndpoints == SocketEndpoints \cup {SpaceSpec(sp) : sp \in Spaces}

Caller(from_, to_) == IF from_.kind = "pair" THEN from_.c ELSE to_.c

(* Endpoints given as a Component object. *)
ComponentEndpoints == {ComponentSpec(c) : c \in handles}

(* type_ of a get_socket call for the only Socket. *)
OnlyTypes == {"in", "out", "none"}

AddComponent ==
    \E self \in handles, component \in handles, connect_ \in ConnectArgs :
        /\ self # component
        /\ Step("add_component", self, <<component, connect_>>,
                add_component(heap, self, component, connect_))

AddComponents ==
    \E self \in handles, c1 \in handles, c2 \in handles :
        /\ self # c1 /\ self # c2
        /\ Step("add_components", self, <<c1, c2>>,
                add_components(heap, self, <<c1, c2>>, ExposeAsIs(ConnectNone)))

Copy ==
    \E self \in handles, name \in CopyNames :
        Step("copy", self, <<name, "none">>, copy(heap, self, name, "none"))

Connect ==
    \E from_ \in AnyEndpoints, to_ \in AnyEndpoints :
        /\ from_.kind = "pair" \/ to_.kind = "pair"
        /\ Step("connect", Caller(from_, to_), <<from_, to_>>,
                connect(heap, Caller(from_, to_), from_, to_))

Disconnect ==
    \E from_ \in AnyEndpoints, to_ \in AnyEndpoints :
        /\ from_.kind = "pair" \/ to_.kind = "pair"
        /\ Step("disconnect", Caller(from_, to_), <<from_, to_>>,
                disconnect(heap, Caller(from_, to_), from_, to_))

Build ==
    \E c \in handles :
        /\ Step("build", c, << >>, build_input_complete(heap, c))

AddSockets ==
    \E self \in handles, a \in AddSocketsArgs :
        /\ Step("add_sockets", self, a, add_sockets(heap, self, a[1], a[2], a[3]))

DefineInputs ==
    \E self \in handles, space \in Spaces \cup {"none"} :
        /\ Step("define_inputs", self, <<<<"x">>, space>>,
                define_inputs(heap, self, <<"x">>, space))

DefineOutputs ==
    \E self \in handles :
        /\ Step("define_outputs", self, <<<<"output">>>>,
                define_outputs(heap, self, <<"output">>))

AddComputation ==
    \E self \in handles, a \in AddComputationArgs :
        /\ Step("add_computation", self, a,
                add_computation(heap, self, NameSpecs(a[1]), NameSpecs(a[2]), a[3], NoFlags))

GetSocket ==
    \E self \in handles, a \in GetSocketArgs :
        /\ Step("get_socket", self, a, get_socket(heap, self, a[1], a[2], a[3]))

AddSocketsInferred ==
    \E self \in handles, a \in InferredSocketsArgs :
        /\ Step("add_sockets", self, a, add_sockets(heap, self, a[1], a[2], a[3]))

GetOnlySocket ==
    \E self \in handles, type_ \in OnlyTypes :
        /\ Step("get_socket", self, <<OnlySpec, type_, FALSE>>,
                get_socket(heap, self, OnlySpec, type_, FALSE))

GetInput ==
    \E self \in handles :
        /\ Step("get_input", self, <<OnlySpec>>, get_input(heap, self, OnlySpec))

GetOutput ==
    \E self \in handles :
        /\ Step("get_output", self, <<OnlySpec>>, get_output(heap, self, OnlySpec))

(* connect and disconnect calls with a Component object as from_ or to_. *)
ConnectComponent ==
    \E from_ \in AnyEndpoints \cup ComponentEndpoints,
       to_ \in AnyEndpoints \cup ComponentEndpoints :
        /\ from_.kind = "component" \/ to_.kind = "component"
        /\ Step("connect", Caller(from_, to_), <<from_, to_>>,
                connect(heap, Caller(from_, to_), from_, to_))

DisconnectComponent ==
    \E from_ \in AnyEndpoints \cup ComponentEndpoints,
       to_ \in AnyEndpoints \cup ComponentEndpoints :
        /\ from_.kind = "component" \/ to_.kind = "component"
        /\ Step("disconnect", Caller(from_, to_), <<from_, to_>>,
                disconnect(heap, Caller(from_, to_), from_, to_))

(* Socket-to-Socket connect and disconnect calls only, in longer runs. *)
WireConnect ==
    \E from_ \in SocketEndpoints, to_ \in SocketEndpoints :
        /\ StepUpTo(MaxWireOps, "connect", from_.c, <<from_, to_>>,
                    connect(heap, from_.c, from_, to_))

WireDisconnect ==
    \E from_ \in SocketEndpoints, to_ \in SocketEndpoints :
        /\ StepUpTo(MaxWireOps, "disconnect", from_.c, <<from_, to_>>,
                    disconnect(heap, from_.c, from_, to_))

(* The flag arguments of an add_computation call. *)
FlagArgs == {NoFlags,
             Flags("False", "None", "None", "None"),
             Flags("None", "False", "None", "None"),
             Flags("True", "True", "True", "True"),
             Flags("False", "False", "False", "False"),
             Flags("None", "None", "True", "False")}

(* add_computation calls that pass flags. *)
AddComputationFlags ==
    \E self \in handles, a \in AddComputationArgs, flags \in FlagArgs :
        /\ StepUpTo(MaxFlagOps, "add_computation", self, <<a[1], a[2], a[3], flags>>,
                    add_computation(heap, self, NameSpecs(a[1]), NameSpecs(a[2]), a[3], flags))

VariableNames == {"w", "b"}

(* <<how, backend(), outcome of the backend>> of a get_variable call that
   creates. *)
SetterArgs == {<<"shape", "tf", "created">>,
               <<"shape", "tf", "conflict">>,
               <<"shape", "none", "created">>,
               <<"from_space", "tf", "created">>}

(* The names of a get_variables call. *)
GetVariablesNames == {<< >>, <<"w">>, <<"b", "w">>}

(* The variables registered in any Component. *)
AllVariables(h) == UNION {h.comps[c].variables : c \in 1..Len(h.comps)}

CreateVariable ==
    \E self \in handles, name \in VariableNames, a \in SetterArgs :
        /\ Step("get_variable", self, <<name, a[1], a[2], a[3]>>,
                get_variable(heap, self, name, a[1], a[2], a[3]))

GetVariable ==
    \E self \in handles, name \in VariableNames :
        /\ Step("get_variable", self, <<name, "getter", "tf", "created">>,
                get_variable(heap, self, name, "getter", "tf", "created"))

GetVariables ==
    \E self \in handles, names \in GetVariablesNames,
       collection_variables \in {{}, AllVariables(heap)} :
        /\ names # << >> => collection_variables = {}
        /\ Step("get_variables", self, <<names, collection_variables>>,
                get_variables(heap, self, names, collection_variables))

(* Component(scope=scope, name=name) *)
Construct ==
    \E scope \in ScopeNames \cup {"none"}, name \in {"none", "Q2"} :
        /\ Step("__init__", NoObject, <<scope, name>>,
                __init__(heap, scope, name, {}, {}))

(* copy calls that give the copy a scope. *)
CopyScoped ==
    \E self \in handles, name \in CopyNames, scope \in ScopeNames \cup {"none"} :
        /\ Step("copy", self, <<name, scope>>, copy(heap, self, name, scope))

ActionSpaces == {"None", "IntBox", "FloatBox"}

(* The Exploration objects constructed so far. *)
Explorations(h) ==
    {e \in 1..Len(h.explorations) : h.explorations[e].class = "Exploration"}

ConstructExploration ==
    \E epsilon_spec \in EpsilonSpecs, noise_spec \in NoiseSpecs :
        /\ Step("Exploration", NoObject, <<epsilon_spec, noise_spec>>,
                Exploration(heap, epsilon_spec, noise_spec))

CheckInputSpaces ==
    \E self \in Explorations(heap), has_batch_rank \in BOOLEAN,
       action_space \in ActionSpaces :
        /\ Step("check_input_spaces", self, <<has_batch_rank, action_space>>,
                check_input_spaces(heap, self, has_batch_rank, action_space))

(* The names and the specifiers the lookups are called with. *)
LookupNames == {"input", "output", "x"}
LookupSpecs == {OnlySpec, NameSpec("x"), NameSpec("input"), PairSpec(2, "output"),
                SocketSpec(1)}

(* Component.get_socket_by_name(component, name, type_) *)
GetSocketByName ==
    \E component \in handles, name \in LookupNames, type_ \in OnlyTypes :
        /\ StepUpTo(MaxLookupOps, "get_socket_by_name", component, <<name, type_>>,
                    Result(heap, "none", get_socket_by_name(heap, component, name, type_)))

(* add_sockets calls that set the lookups up. *)
AddSocketsForLookup ==
    \E self \in handles, a \in AddSocketsArgs :
        /\ StepUpTo(MaxLookupOps, "add_sockets", self, a,
                    add_sockets(heap, self, a[1], a[2], a[3]))

(* get_socket calls that leave create_internal_if_not_found at False. *)
LookupSocket ==
    \E self \in handles, socket \in LookupSpecs, type_ \in OnlyTypes :
        /\ StepUpTo(MaxLookupOps, "get_socket", self, <<socket, type_, FALSE>>,
                    get_socket(heap, self, socket, type_, FALSE))

LookupInput ==
    \E self \in handles, socket \in LookupSpecs :
        /\ StepUpTo(MaxLookupOps, "get_input", self, <<socket>>,
                    get_input(heap, self, socket))

LookupOutput ==
    \E self \in handles, socket \in LookupSpecs :
        /\ StepUpTo(MaxLookupOps, "get_output", self, <<socket>>,
                    get_output(heap, self, socket))

(* Batches of samples, of random actions and of epsilon decisions. *)
Batch == 1..BatchSize
SampleBatches == {[i \in Batch |-> v] : v \in {0, NumCategories - 1}}
                     \cup {[i \in Batch |-> i % NumCategories]}
RandomBatches == {[i \in Batch |-> v] : v \in 0..(NumCategories - 1)}
DecisionBatches == [Batch -> BOOLEAN]
SwitchValues == {"False", "True", "tensor_false", "tensor_true"}

GetAction ==
    \E self \in Explorations(heap), backend_ \in {"tf", "none"},
       actions \in SampleBatches, use_exploration \in SwitchValues,
       epsilon_decisions \in DecisionBatches, random_actions \in RandomBatches :
        /\ backend_ = "none" =>
               (use_exploration = "True" /\ random_actions = [i \in Batch |-> 0])
        /\ Step("get_action", self,
                <<backend_, actions, use_exploration, epsilon_decisions, random_actions>>,
                get_action(heap, self, backend_, actions, use_exploration,
                           epsilon_decisions, random_actions, random_actions))

(* IMPALAWorker: the agents a worker is constructed with, the frames an
   environment answers its steps with and the behaviours of an environment. *)
Agents == {"IMPALAAgent", "DQNAgent"}
Workers(h) == 1..Len(h.workers)
Frames == [reward : 0..MaxReward, terminal : BOOLEAN]
EnvBehaviours == UNION {[1..k -> Frames] : k \in 1..MaxFrameskip}
ResetArgs == {"True", "False"}

ConstructWorker ==
    \E agent \in Agents :
        /\ StepUpTo(MaxResetOps, "IMPALAWorker", NoObject, <<agent>>,
                    IMPALAWorker(heap, agent))

ExecuteTimesteps ==
    \E self \in Workers(heap), num_timesteps \in 0..MaxTimesteps,
       max_timesteps_per_episode \in 0..MaxEpisodeLimit,
       reset \in ResetArgs, env \in EnvBehaviours :
        /\ StepUpTo(MaxWorkerOps, "execute_timesteps", self,
                    <<num_timesteps, max_timesteps_per_episode, Len(env), reset, env>>,
                    execute_timesteps(heap, self, num_timesteps,
                                      max_timesteps_per_episode, Len(env), reset, env))

(* One timestep without frame skipping. *)
ExecuteOneTimestep ==
    \E self \in Workers(heap), max_timesteps_per_episode \in 0..1,
       reset \in ResetArgs, env \in [1..1 -> Frames] :
        /\ StepUpTo(MaxResetOps, "execute_timesteps", self,
                    <<1, max_timesteps_per_episode, 1, reset, env>>,
                    execute_timesteps(heap, self, 1, max_timesteps_per_episode, 1,
                                      reset, env))

(* Transpose: the Spaces a client preprocesses and the tensors it feeds. *)
Transposes(h) == 1..Len(h.transposes)
PrimitiveSpaces ==
    {NewSpace("FloatBox", <<4>>, TRUE, TRUE, tm) : tm \in BOOLEAN}
        \cup {NewSpace("IntBox", << >>, FALSE, TRUE, tm) : tm \in BOOLEAN}
        \cup {NewSpace("FloatBox", << >>, TRUE, FALSE, FALSE)}
InputSpaces ==
    PrimitiveSpaces
        \cup {DictSpace([a |-> p, b |-> q]) :
                  p, q \in {s \in PrimitiveSpaces : s.has_time_rank}}
FlatKeys == {""} \cup {FlatKey[n] : n \in DOMAIN FlatKey}
TensorShapes == {<<2, 3>>, <<3, 2, 4>>}

ConstructTranspose ==
    /\ StepUpTo(MaxTransposeOps, "Transpose", NoObject, << >>, Transpose(heap))

GetPreprocessedSpace ==
    \E self \in Transposes(heap), space \in InputSpaces :
        /\ StepUpTo(MaxTransposeOps, "get_preprocessed_space", self,
                    <<space, "client">>, get_preprocessed_space(heap, self, space))

(* The Space the last call returned is preprocessed again. *)
GetPreprocessedSpaceAgain ==
    \E self \in Transposes(heap) :
        /\ last.op = "get_preprocessed_space"
        /\ StepUpTo(MaxTransposeOps, "get_preprocessed_space", self,
                    <<last.ret, "previous">>,
                    get_preprocessed_space(heap, self, last.ret))

GraphFnApply ==
    \E self \in Transposes(heap), backend_ \in {"tf", "none"}, key \in FlatKeys,
       preprocessing_inputs \in TensorShapes :
        /\ StepUpTo(MaxTransposeOps, "_graph_fn_apply", self,
                    <<backend_, key, preprocessing_inputs>>,
                    _graph_fn_apply(heap, self, backend_, key, preprocessing_inputs))

(* Composition, wiring, copying and building. *)
Next ==
    \/ AddComponent
    \/ AddComponents
    \/ Copy
    \/ Connect
    \/ Disconnect
    \/ Build

Spec == Init /\ [][Next]_vars

(* The calls that create Sockets. *)
NextSockets ==
    \/ AddSockets
    \/ DefineInputs
    \/ DefineOutputs
    \/ AddComputation
    \/ GetSocket
    \/ AddComponent

SpecSockets == Init /\ [][NextSockets]_vars

NextWire ==
    \/ WireConnect
    \/ WireDisconnect

SpecWire == Init /\ [][NextWire]_vars

(* add_sockets calls whose types are inferred. *)
NextNames == AddSocketsInferred

SpecNames == Init /\ [][NextNames]_vars

(* The calls that ask for the only Socket of a side. *)
NextOnly ==
    \/ AddSockets
    \/ GetOnlySocket
    \/ GetInput
    \/ GetOutput
    \/ ConnectComponent
    \/ DisconnectComponent

SpecOnly == Init /\ [][NextOnly]_vars

(* add_computation calls with flags. *)
NextFlags == AddComputationFlags

SpecFlags == Init /\ [][NextFlags]_vars

(* The variable registry. *)
NextVariables ==
    \/ CreateVariable
    \/ GetVariable
    \/ GetVariables

SpecVariables == Init /\ [][NextVariables]_vars

(* Construction and copies with a scope. *)
NextScopes ==
    \/ Construct
    \/ CopyScoped

SpecScopes == Init /\ [][NextScopes]_vars

(* Explorations: construction, the check of the input Spaces and get_action. *)
NextExploration ==
    \/ ConstructExploration
    \/ CheckInputSpaces
    \/ GetAction

SpecExploration == Init /\ [][NextExploration]_vars

(* The lookups of Sockets. *)
NextLookup ==
    \/ AddSocketsForLookup
    \/ GetSocketByName
    \/ LookupSocket
    \/ LookupInput
    \/ LookupOutput

SpecLookup == Init /\ [][NextLookup]_vars

(* IMPALA workers: construction and rollouts. *)
NextWorker ==
    \/ ConstructWorker
    \/ ExecuteTimesteps

SpecWorker == Init /\ [][NextWorker]_vars

(* IMPALA workers: construction and rollouts of one timestep, over more
   calls. *)
NextWorkerReset ==
    \/ ConstructWorker
    \/ ExecuteOneTimestep

SpecWorkerReset == Init /\ [][NextWorkerReset]_vars

(* Transpose preprocessors. *)
NextTranspose ==
    \/ ConstructTranspose
    \/ GetPreprocessedSpace
    \/ GetPreprocessedSpaceAgain
    \/ GraphFnApply

SpecTranspose == Init /\ [][NextTranspose]_vars

(***************************************************************************)
(* Properties.                                                             *)
(***************************************************************************)
Components(h) == 1..Len(h.comps)
Sockets(h) == 1..Len(h.socks)

(* The Socket of Component c named name. *)
SocketOf(h, c, name) ==
    CHOOSE s \in SeqToSet(AllSockets(h, c)) : h.socks[s].name = name

(* The entries of a list with their multiplicities. *)
Contents(list_) ==
    [e \in SeqToSet(list_) |-> Cardinality({i \in 1..Len(list_) : list_[i] = e})]

Parents(h, c) == {p \in Components(h) : c \in DictValues(h.comps[p].sub_components)}

LastAddComponent == last.op = "add_component"
LastChild == last.args[1]

HasBeenAddedStays ==
    /\ \A c \in Components(pre) : pre.comps[c].has_been_added => heap.comps[c].has_been_added
    /\ (LastAddComponent /\ last.err = "none") => heap.comps[LastChild].has_been_added

(* C1, as stated: a second c.add_component(child) with the same child raises
   AlreadyAddedError, and has_been_added is true after the first successful
   add_component and never becomes false again. *)
C1_SecondAddRaisesAlreadyAdded ==
    /\ (LastAddComponent /\ LastChild \in DictValues(pre.comps[last.self].sub_components))
          => last.err = "AlreadyAddedError"
    /\ HasBeenAddedStays

(* C1, amended: add_component of a child that was already added raises and
   changes nothing; the error is DuplicateComponentError when the parent
   already holds a sub-component of the child's name (so always when the same
   parent adds the child again) and AlreadyAddedError otherwise; and
   has_been_added is true after the first successful add_component and never
   becomes false again. *)
C1_SecondAddRaises ==
    /\ (LastAddComponent /\ pre.comps[LastChild].has_been_added) =>
          /\ heap = pre
          /\ last.err = IF DictHasKey(pre.comps[last.self].sub_components,
                                      pre.comps[LastChild].name)
                        THEN "DuplicateComponentError" ELSE "AlreadyAddedError"
    /\ (LastAddComponent /\ LastChild \in DictValues(pre.comps[last.self].sub_components))
          => last.err = "DuplicateComponentError"
    /\ HasBeenAddedStays

C1_Witness ==
    /\ LastAddComponent
    /\ LastChild \in DictValues(pre.comps[last.self].sub_components)
    /\ last.err = "DuplicateComponentError"
    /\ heap.comps[LastChild].has_been_added

(* C2: every Component is a value of the sub_components of at most one
   Component, and there under one key. *)
C2_SingleOwner ==
    \A c \in Components(heap) :
        /\ Cardinality(Parents(heap, c)) <= 1
        /\ \A p \in Components(heap) :
              Cardinality({e \in heap.comps[p].sub_components : e[2] = c}) <= 1

C2_Witness ==
    /\ LastAddComponent
    /\ last.err = "AlreadyAddedError"
    /\ Parents(heap, LastChild) # {}
    /\ last.self \notin Parents(heap, LastChild)

NamesDistinct(h, c) ==
    \A i, j \in 1..Len(AllSockets(h, c)) :
        i # j => h.socks[AllSockets(h, c)[i]].name # h.socks[AllSockets(h, c)[j]].name

SocketNamesDistinct == \A c \in Components(heap) : NamesDistinct(heap, c)

NamePresent(h, c, name) == \E s \in SeqToSet(AllSockets(h, c)) : h.socks[s].name = name

LastAddSockets == last.op = "add_sockets"

(* C3, as stated: the Socket names of a Component are pairwise distinct
   across its three lists, and an add_sockets call with a name that is
   already present raises DuplicateSocketError. *)
C3_DuplicateNameRaisesDuplicate ==
    /\ SocketNamesDistinct
    /\ (LastAddSockets /\ \E i \in 1..Len(last.args[1]) :
                              NamePresent(pre, last.self, last.args[1][i]))
          => last.err = "DuplicateSocketError"

(* C3, amended: the Socket names of a Component are pairwise distinct across
   its three lists; an add_sockets call with a name that is already present
   raises, DuplicateSocketError or, when the type of that name or of a name
   before it cannot be inferred, NameInferenceError; it is
   DuplicateSocketError when the first name is present and its type is given
   or can be inferred. *)
C3_SocketNamesDistinct ==
    /\ SocketNamesDistinct
    /\ (LastAddSockets /\ \E i \in 1..Len(last.args[1]) :
                              NamePresent(pre, last.self, last.args[1][i]))
          => last.err \in {"DuplicateSocketError", "NameInferenceError"}
    /\ (/\ LastAddSockets
        /\ NamePresent(pre, last.self, last.args[1][1])
        /\ (last.args[2] # "none" \/ infer_type(last.args[1][1]) # "none"))
          => last.err = "DuplicateSocketError" /\ heap = pre

C3_Witness ==
    /\ LastAddSockets
    /\ NamePresent(pre, last.self, last.args[1][1])
    /\ last.err = "DuplicateSocketError"
    /\ Len(AllSockets(heap, last.self)) >= 2

SocketPeers(h, s) ==
    RefsOf(h.socks[s].incoming_connections, "socket")
        \cup RefsOf(h.socks[s].outgoing_connections, "socket")

(* C4: no Socket has a Socket of its own Component in its incoming or
   outgoing connections. *)
C4_NoSameComponentLink ==
    \A s \in Sockets(heap) : \A t \in SocketPeers(heap, s) :
        heap.socks[t].component # heap.socks[s].component

(* The last two calls are connect(A, B) and disconnect(A, B), both returned,
   for an out-Socket A and an in-Socket B of two different Components. *)
RoundTrip(a, b) ==
    /\ last2.op = "connect" /\ last2.err = "none"
    /\ last.op = "disconnect" /\ last.err = "none"
    /\ last.args = last2.args
    /\ a = SocketOf(pre2, last.args[1].c, last.args[1].name)
    /\ b = SocketOf(pre2, last.args[2].c, last.args[2].name)
    /\ pre2.socks[a].type = "out"
    /\ pre2.socks[b].type = "in"
    /\ pre2.socks[a].component # pre2.socks[b].component

(* C5: connect(A, B) followed by disconnect(A, B) gives the four connection
   lists of A and B the contents they had before the connect. *)
C5_ConnectDisconnectRoundTrip ==
    \A a, b \in Sockets(heap) :
        RoundTrip(a, b) =>
            /\ Contents(heap.socks[a].outgoing_connections)
                  = Contents(pre2.socks[a].outgoing_connections)
            /\ Contents(heap.socks[b].incoming_connections)
                  = Contents(pre2.socks[b].incoming_connections)
            /\ heap.socks[a].incoming_connections = pre2.socks[a].incoming_connections
            /\ heap.socks[b].outgoing_connections = pre2.socks[b].outgoing_connections

C5_Witness ==
    \E a, b \in Sockets(heap) :
        /\ RoundTrip(a, b)
        /\ pre2.socks[a].outgoing_connections # << >>
        /\ pre.socks[a].outgoing_connections # pre2.socks[a].outgoing_connections

LastCopy == last.op = "copy"

OriginalsUnchanged ==
    /\ \A s \in Sockets(pre) : heap.socks[s] = pre.socks[s]
    /\ \A c \in Components(pre) : heap.comps[c] = pre.comps[c]

(* C6, as stated: every Socket of the Component that copy() returns has an
   empty incoming_connections and an empty outgoing_connections list, and
   the Sockets that existed before the copy are unchanged. *)
C6_CopyHasNoConnections ==
    LastCopy =>
        /\ \A s \in SeqToSet(AllSockets(heap, last.ret)) :
              /\ heap.socks[s].incoming_connections = << >>
              /\ heap.socks[s].outgoing_connections = << >>
        /\ OriginalsUnchanged

(* C6, amended: every in-Socket of the Component that copy() returns has an
   empty incoming_connections list and every out-Socket an empty
   outgoing_connections list (the other lists are copies of the original's,
   pointing at copies), and the Sockets and Components that existed before
   the copy are unchanged. *)
C6_CopyHasNoOutsideConnections ==
    LastCopy =>
        /\ \A s \in SeqToSet(heap.comps[last.ret].input_sockets) :
              heap.socks[s].incoming_connections = << >>
        /\ \A s \in SeqToSet(heap.comps[last.ret].output_sockets) :
              heap.socks[s].outgoing_connections = << >>
        /\ last.ret \notin Components(pre)
        /\ OriginalsUnchanged

C6_Witness ==
    /\ LastCopy
    /\ \E s \in SeqToSet(pre.comps[last.self].input_sockets) :
          pre.socks[s].incoming_connections # << >>
    /\ \E s \in SeqToSet(pre.comps[last.self].output_sockets) :
          pre.socks[s].outgoing_connections # << >>

(* C7: add_component of a Component that copy() returned and that the client
   has not added to any Component, on a parent without a sub-component of
   its name, does not raise AlreadyAddedError and adds it. *)
C7_CopyCanBeAdded ==
    (/\ LastAddComponent
     /\ LastChild \notin InitHandles
     /\ \A p \in handles : LastChild \notin DictValues(pre.comps[p].sub_components)
     /\ ~DictHasKey(pre.comps[last.self].sub_components, pre.comps[LastChild].name))
        => /\ last.err # "AlreadyAddedError"
           /\ LastChild \in DictValues(heap.comps[last.self].sub_components)

(* C8: a Component that copy() returns is input-complete only if every one
   of its in-Sockets has a resolved Space. *)
C8_CopyNotInputComplete ==
    LastCopy => (heap.comps[last.ret].input_complete => InputsResolved(heap, last.ret))

LastConnect == last.op = "connect"

(* C9: connect(space, socket) appends the Space to the incoming connections
   of an in-Socket, connect(socket, space) appends it to the outgoing
   connections of an out-Socket, and with a Socket of the other type the call
   raises TypeMismatchError and changes nothing. *)
C9_SpaceNeedsMatchingType ==
    /\ (LastConnect /\ last.args[1].kind = "space") =>
          LET s == SocketOf(pre, last.args[2].c, last.args[2].name)
          IN IF pre.socks[s].type = "in"
             THEN /\ last.err = "none"
                  /\ heap = [pre EXCEPT !.socks[s].incoming_connections =
                                Append(@, SpaceRef(last.args[1].id))]
             ELSE last.err = "TypeMismatchError" /\ heap = pre
    /\ (LastConnect /\ last.args[2].kind = "space") =>
          LET s == SocketOf(pre, last.args[1].c, last.args[1].name)
          IN IF pre.socks[s].type = "out"
             THEN /\ last.err = "none"
                  /\ heap = [pre EXCEPT !.socks[s].outgoing_connections =
                                Append(@, SpaceRef(last.args[2].id))]
             ELSE last.err = "TypeMismatchError" /\ heap = pre

C9_Witness ==
    /\ LastConnect
    /\ last.args[1].kind = "space"
    /\ pre.socks[SocketOf(pre, last.args[2].c, last.args[2].name)].type = "out"
    /\ last.err = "TypeMismatchError"

TypesAndNames(h, list_) == [i \in 1..Len(list_) |-> <<h.socks[list_[i]].name, h.socks[list_[i]].type>>]

(* P has no Sockets, Q has exactly the in-Socket "input" and the out-Socket
   "output", and the last call is P.add_component(Q, connect=True) of a Q
   that could be added. *)
ExposeAllScenario ==
    /\ LastAddComponent
    /\ last.args[2] = ConnectTrue
    /\ AllSockets(pre, last.self) = << >>
    /\ TypesAndNames(pre, pre.comps[LastChild].input_sockets) = <<<<"input", "in">>>>
    /\ TypesAndNames(pre, pre.comps[LastChild].output_sockets) = <<<<"output", "out">>>>
    /\ pre.comps[LastChild].internal_sockets = << >>
    /\ ~pre.comps[LastChild].has_been_added
    /\ ~DictHasKey(pre.comps[last.self].sub_components, pre.comps[LastChild].name)

(* C10: in that scenario P gets exactly one in-Socket "input" and one
   out-Socket "output", P.input -> Q.input and Q.output -> P.output are linked
   on both sides, and no other connection list changes. *)
C10_ExposeAll ==
    ExposeAllScenario =>
        LET P == last.self
            Q == LastChild
            q_in == pre.comps[Q].input_sockets[1]
            q_out == pre.comps[Q].output_sockets[1]
            p_in == heap.comps[P].input_sockets[1]
            p_out == heap.comps[P].output_sockets[1]
        IN /\ last.err = "none"
           /\ TypesAndNames(heap, heap.comps[P].input_sockets) = <<<<"input", "in">>>>
           /\ TypesAndNames(heap, heap.comps[P].output_sockets) = <<<<"output", "out">>>>
           /\ heap.comps[P].internal_sockets = << >>
           /\ Sockets(heap) = Sockets(pre) \cup {p_in, p_out}
           /\ heap.socks[p_in].component = P /\ heap.socks[p_out].component = P
           /\ heap.socks[p_in].outgoing_connections = <<SocketRef(q_in)>>
           /\ heap.socks[p_in].incoming_connections = << >>
           /\ heap.socks[q_in].incoming_connections
                 = Append(pre.socks[q_in].incoming_connections, SocketRef(p_in))
           /\ heap.socks[q_in].outgoing_connections = pre.socks[q_in].outgoing_connections
           /\ heap.socks[q_out].outgoing_connections
                 = Append(pre.socks[q_out].outgoing_connections, SocketRef(p_out))
           /\ heap.socks[q_out].incoming_connections = pre.socks[q_out].incoming_connections
           /\ heap.socks[p_out].incoming_connections = <<SocketRef(q_out)>>
           /\ heap.socks[p_out].outgoing_connections = << >>
           /\ \A s \in Sockets(pre) \ {q_in, q_out} : heap.socks[s] = pre.socks[s]
           /\ heap.comps[P].sub_components
                 = pre.comps[P].sub_components \cup {<<pre.comps[Q].name, Q>>}

C10_Witness ==
    /\ ExposeAllScenario
    /\ last.err = "none"
    /\ Len(heap.comps[last.self].input_sockets) = 1
    /\ Len(heap.comps[last.self].output_sockets) = 1


(* The items of the connect spec of the last add_component call. *)
LastConnectSpec == connect_spec_of(pre, LastChild, last.args[2])

(* The parent's Socket p and the child's Socket s are linked, from the parent
   to the child for an in-Socket of the child, from the child to the parent
   for an out-Socket. *)
LinkedInDirection(h, p, s) ==
    IF h.socks[s].type = "in"
    THEN /\ SeqContains(h.socks[p].outgoing_connections, SocketRef(s))
         /\ SeqContains(h.socks[s].incoming_connections, SocketRef(p))
    ELSE /\ SeqContains(h.socks[s].outgoing_connections, SocketRef(p))
         /\ SeqContains(h.socks[p].incoming_connections, SocketRef(s))

(* C11, as stated: after an add_component call that returned, for every
   (old, new) entry of its connect spec the parent has a Socket named new of
   the type of the child's Socket named old, linked to it in the direction
   of that type. *)
C11_ExposedSocketsTyped ==
    (LastAddComponent /\ last.err = "none") =>
        \A i \in 1..Len(LastConnectSpec) :
            LET s == get_socket_by_name(pre, LastChild, LastConnectSpec[i][1], "none")
                p == get_socket_by_name(heap, last.self, LastConnectSpec[i][2], "none")
            IN /\ p # NoObject
               /\ heap.socks[p].type = heap.socks[s].type
               /\ LinkedInDirection(heap, p, s)

(* Entry i of the connect spec is the first to name its new name, and the
   parent had no Socket of that name before the call. *)
CreatedForEntry(i) ==
    /\ ~NamePresent(pre, last.self, LastConnectSpec[i][2])
    /\ \A j \in 1..(i - 1) : LastConnectSpec[j][2] # LastConnectSpec[i][2]

(* C11, amended: after an add_component call that returned, for every
   (old, new) entry of its connect spec the parent has a Socket named new,
   linked to the child's Socket named old in the direction of the child's
   Socket's type; the parent's Socket has that type when the call created it
   for the entry, and the type it had when the parent had it before. *)
C11_ExposedSocketsLinked ==
    (LastAddComponent /\ last.err = "none") =>
        \A i \in 1..Len(LastConnectSpec) :
            LET s == get_socket_by_name(pre, LastChild, LastConnectSpec[i][1], "none")
                p == get_socket_by_name(heap, last.self, LastConnectSpec[i][2], "none")
            IN /\ p # NoObject
               /\ LinkedInDirection(heap, p, s)
               /\ CreatedForEntry(i) =>
                     (p \notin Sockets(pre) /\ heap.socks[p].type = heap.socks[s].type)
               /\ NamePresent(pre, last.self, LastConnectSpec[i][2]) =>
                     (p \in Sockets(pre) /\ heap.socks[p].type = pre.socks[p].type)

C11_Witness ==
    /\ LastAddComponent
    /\ last.err = "none"
    /\ \E i \in 1..Len(LastConnectSpec) :
          /\ NamePresent(pre, last.self, LastConnectSpec[i][2])
          /\ heap.socks[SocketOf(heap, last.self, LastConnectSpec[i][2])].type
                # heap.socks[SocketOf(pre, LastChild, LastConnectSpec[i][1])].type

(* The offsets of s at which the word w stands as a token: what precedes it
   is the start of s, a digit, an underscore or a non-word character, and
   what follows it the end of s, a digit, an underscore or a non-word
   character. *)
TokenOffsets(s, w) ==
    {q \in 0..Len(s) :
        /\ HasAt(s, q, w)
        /\ (q = 0 \/ s[q] \in Digits \cup {"_"} \/ s[q] \notin Letters)
        /\ (q + Len(w) = Len(s) \/ s[q + Len(w) + 1] \in Digits \cup {"_"}
                                \/ s[q + Len(w) + 1] \notin Letters)}

InputTokens(name) == TokenOffsets(Chars(name), <<"i", "n", "p", "u", "t">>)
OutputTokens(name) == TokenOffsets(Chars(name), <<"o", "u", "t", "p", "u", "t">>)

(* The side of the leftmost token of name, "none" without a token. *)
TokenType(name) ==
    IF InputTokens(name) = {} /\ OutputTokens(name) = {} THEN "none"
    ELSE IF OutputTokens(name) = {} THEN "in"
    ELSE IF InputTokens(name) = {} THEN "out"
    ELSE IF \E q \in InputTokens(name) : \A r \in OutputTokens(name) : q < r THEN "in"
    ELSE "out"

(* The last call added exactly one Socket, named name and of type type_, to
   the in-Sockets (type "in") or the out-Sockets of its Component. *)
AddedOneSocket(name, type_) ==
    /\ last.err = "none"
    /\ heap.socks = Append(pre.socks, NewSocket(name, last.self, type_))
    /\ heap.comps[last.self].input_sockets =
           IF type_ = "in" THEN Append(pre.comps[last.self].input_sockets, Len(heap.socks))
           ELSE pre.comps[last.self].input_sockets
    /\ heap.comps[last.self].output_sockets =
           IF type_ = "out" THEN Append(pre.comps[last.self].output_sockets, Len(heap.socks))
           ELSE pre.comps[last.self].output_sockets
    /\ heap.comps[last.self].internal_sockets = pre.comps[last.self].internal_sockets

(* The last call is add_sockets(n) with one name, not yet a Socket name of
   the Component, and no type. *)
SingleInferred ==
    /\ LastAddSockets
    /\ Len(last.args[1]) = 1
    /\ last.args[2] = "none"
    /\ ~NamePresent(pre, last.self, last.args[1][1])

(* C12, as stated: add_sockets(n) without a type adds an in-Socket when n
   contains the token "input", an out-Socket when n contains the token
   "output", and raises NameInferenceError, adding nothing, when n contains
   neither. *)
C12_InfersSideOfToken ==
    SingleInferred =>
        /\ InputTokens(last.args[1][1]) # {} => AddedOneSocket(last.args[1][1], "in")
        /\ OutputTokens(last.args[1][1]) # {} => AddedOneSocket(last.args[1][1], "out")
        /\ (InputTokens(last.args[1][1]) = {} /\ OutputTokens(last.args[1][1]) = {})
              => (last.err = "NameInferenceError" /\ heap = pre)

(* C12, amended: add_sockets(n) without a type, for a name n the Component
   has no Socket of, adds a Socket of the side of the leftmost token "input"
   or "output" of n, and raises NameInferenceError, adding nothing, when n
   contains neither token. *)
C12_InfersSideOfLeftmostToken ==
    SingleInferred =>
        IF TokenType(last.args[1][1]) = "none"
        THEN last.err = "NameInferenceError" /\ heap = pre
        ELSE AddedOneSocket(last.args[1][1], TokenType(last.args[1][1]))

C12_Witness ==
    /\ SingleInferred
    /\ InputTokens(last.args[1][1]) # {}
    /\ OutputTokens(last.args[1][1]) # {}
    /\ last.err = "none"
    /\ heap.socks[Len(heap.socks)].type = "out"

(* C13: an add_sockets call with several names (none of them a Socket name
   of the Component yet, all different) and no type gives every Socket the
   side of the token of its own name, and raises NameInferenceError when one
   of the names has no token. *)
C13_EachNameInferredAlone ==
    (/\ LastAddSockets
     /\ Len(last.args[1]) >= 2
     /\ last.args[2] = "none"
     /\ \A i \in 1..Len(last.args[1]) : ~NamePresent(pre, last.self, last.args[1][i])
     /\ \A i, j \in 1..Len(last.args[1]) : i # j => last.args[1][i] # last.args[1][j])
       => IF \E i \in 1..Len(last.args[1]) : TokenType(last.args[1][i]) = "none"
          THEN last.err = "NameInferenceError"
          ELSE /\ last.err = "none"
               /\ \A i \in 1..Len(last.args[1]) :
                     heap.socks[SocketOf(heap, last.self, last.args[1][i])].type
                         = TokenType(last.args[1][i])

(* C14: add_component of a child whose name is a key of the parent's
   sub_components raises DuplicateComponentError and leaves the parent's
   sub_components, the parent's Sockets and the child's has_been_added as
   they were; and no sub_components holds two Components under one name. *)
C14_DuplicateNameRejected ==
    /\ (LastAddComponent /\ DictHasKey(pre.comps[last.self].sub_components,
                                        pre.comps[LastChild].name))
          => /\ last.err = "DuplicateComponentError"
             /\ heap.comps[last.self].sub_components = pre.comps[last.self].sub_components
             /\ AllSockets(heap, last.self) = AllSockets(pre, last.self)
             /\ heap.socks = pre.socks
             /\ heap.comps[LastChild].has_been_added = pre.comps[LastChild].has_been_added
    /\ \A c \in Components(heap) : \A e1, e2 \in heap.comps[c].sub_components :
          e1[1] = e2[1] => e1 = e2

C14_Witness ==
    /\ LastAddComponent
    /\ last.err = "DuplicateComponentError"
    /\ LastChild \notin DictValues(pre.comps[last.self].sub_components)
    /\ ~heap.comps[LastChild].has_been_added

(* The number of Sockets of Component c on a side. *)
OnlyCount(h, c, side) ==
    Len(IF side = "out" THEN h.comps[c].output_sockets ELSE h.comps[c].input_sockets)

(* The Socket an endpoint of a connect or disconnect call stands for: the
   first out-Socket (as from_) or in-Socket (as to_) of a Component, or the
   Socket named by a (Component, name) pair. *)
EndpointSocket(h, endpoint, side) ==
    IF endpoint.kind = "component"
    THEN (IF side = "out" THEN h.comps[endpoint.c].output_sockets
          ELSE h.comps[endpoint.c].input_sockets)[1]
    ELSE SocketOf(h, endpoint.c, endpoint.name)

(* The last call asks for the only Socket of a side of its Component. *)
LastOnlySocket ==
    \/ last.op \in {"get_input", "get_output"}
    \/ last.op = "get_socket" /\ last.args[1] = OnlySpec /\ last.args[2] # "none"

LastOnlySide ==
    IF last.op = "get_input" THEN "in"
    ELSE IF last.op = "get_output" THEN "out"
    ELSE last.args[2]

(* The last call is a connect or disconnect with a Component as from_ or to_
   and no Space. *)
LastWithComponent ==
    /\ last.op \in {"connect", "disconnect"}
    /\ last.args[1].kind = "component" \/ last.args[2].kind = "component"
    /\ last.args[1].kind # "space" /\ last.args[2].kind # "space"

(* A Component given as endpoint of the last call has no Socket or several
   on the side asked for. *)
LastAmbiguous ==
    \/ last.args[1].kind = "component" /\ OnlyCount(pre, last.args[1].c, "out") # 1
    \/ last.args[2].kind = "component" /\ OnlyCount(pre, last.args[2].c, "in") # 1

(* C15: a request for the only Socket of a side (get_socket(None, type_),
   get_input(), get_output(), a Component as from_ or to_ of connect or
   disconnect) gives the Socket when there is exactly one on that side, and
   raises AmbiguousSocketError, changing nothing, when there is none or
   several. *)
C15_OnlySocketOrAmbiguous ==
    /\ LastOnlySocket =>
          /\ heap = pre
          /\ IF OnlyCount(pre, last.self, LastOnlySide) = 1
             THEN /\ last.err = "none"
                  /\ last.ret \in SeqToSet(AllSockets(pre, last.self))
                  /\ pre.socks[last.ret].type = LastOnlySide
             ELSE last.err = "AmbiguousSocketError"
    /\ (LastWithComponent /\ LastAmbiguous) =>
          (last.err = "AmbiguousSocketError" /\ heap = pre)
    /\ (LastWithComponent /\ ~LastAmbiguous) =>
          LET f == EndpointSocket(pre, last.args[1], "out")
              t == EndpointSocket(pre, last.args[2], "in")
          IN IF last.op = "connect"
             THEN /\ last.err = "none"
                  /\ heap.socks[f].outgoing_connections
                        = Append(pre.socks[f].outgoing_connections, SocketRef(t))
                  /\ heap.socks[t].incoming_connections
                        = Append(pre.socks[t].incoming_connections, SocketRef(f))
             ELSE last.err = IF pre.socks[f].component = pre.socks[t].component
                             THEN "SameComponentConnectionError" ELSE "none"

C15_Witness ==
    /\ LastWithComponent
    /\ last.op = "connect"
    /\ last.args[1].kind = "component"
    /\ OnlyCount(pre, last.args[1].c, "out") >= 2
    /\ last.err = "AmbiguousSocketError"

(* The last call is get_socket with a name or a (Component, name) pair that
   the lookup does not resolve. *)
LastUnresolved ==
    /\ last.op = "get_socket"
    /\ last.args[1].kind \in {"name", "pair"}
    /\ get_socket_by_name(pre, IF last.args[1].kind = "name" THEN last.self
                               ELSE last.args[1].c,
                          last.args[1].name, last.args[2]) = NoObject

(* C16: get_socket of a name it cannot resolve creates, with
   create_internal_if_not_found, an internal Socket of that name and type
   "in" and returns it, and raises SocketNotFoundError without; for a
   (Component, name) pair the Socket is created in the Component named by
   the pair. *)
C16_CreatesInNamedComponent ==
    LastUnresolved =>
        IF last.args[3]
        THEN /\ last.err = "none"
             /\ heap.socks = Append(pre.socks,
                                    NewSocket(last.args[1].name,
                                              IF last.args[1].kind = "name" THEN last.self
                                              ELSE last.args[1].c, "in"))
             /\ last.ret = Len(heap.socks)
             /\ SeqContains(heap.comps[heap.socks[last.ret].component].internal_sockets,
                            last.ret)
        ELSE last.err = "SocketNotFoundError" /\ heap = pre

(* The last call is disconnect(from_, to_) of two Sockets a and b of one
   Component. *)
SameComponentDisconnect(a, b) ==
    /\ last.op = "disconnect"
    /\ last.args[1].kind = "pair" /\ last.args[2].kind = "pair"
    /\ a = SocketOf(pre, last.args[1].c, last.args[1].name)
    /\ b = SocketOf(pre, last.args[2].c, last.args[2].name)
    /\ pre.socks[a].component = pre.socks[b].component

(* C17: disconnect(from_, to_) of two Sockets of the same Component raises
   SameComponentConnectionError and leaves the connection lists of both
   Sockets unchanged. *)
C17_SameComponentDisconnectRaises ==
    \A a, b \in Sockets(pre) :
        SameComponentDisconnect(a, b) =>
            /\ last.err = "SameComponentConnectionError"
            /\ heap.socks[a] = pre.socks[a]
            /\ heap.socks[b] = pre.socks[b]

C17_Witness ==
    \E a, b \in Sockets(pre) :
        /\ SameComponentDisconnect(a, b)
        /\ SeqContains(pre.socks[a].outgoing_connections, SocketRef(b))
        /\ SeqContains(heap.socks[b].incoming_connections, SocketRef(a))
        /\ last.err = "SameComponentConnectionError"

LastAddComputation == last.op = "add_computation"

(* The number of callable members of the Component of the last call whose
   name starts with _computation_. *)
LastMethodCount == Cardinality(pre.comps[last.self].methods)

(* C18: add_computation without a method binds the only _computation_
   member of the Component when there is exactly one, and raises
   ConfigurationError, changing nothing, when there is none or several. *)
C18_OmittedMethodNeedsExactlyOne ==
    (LastAddComputation /\ last.args[3] = "none") =>
        IF LastMethodCount = 1
        THEN /\ last.err = "none"
             /\ Len(heap.computations) = Len(pre.computations) + 1
             /\ heap.computations[Len(heap.computations)].component = last.self
             /\ pre.comps[last.self].methods
                   = {heap.computations[Len(heap.computations)].method}
        ELSE last.err = "ConfigurationError" /\ heap = pre

C18_Witness ==
    /\ LastAddComputation
    /\ last.args[3] = "none"
    /\ LastMethodCount >= 2
    /\ last.err = "ConfigurationError"

(* C19: add_computation with method "double" on a Component that has no
   member _computation_double, and none or several _computation_ members,
   raises ConfigurationError. *)
C19_UndefinedMethodRaises ==
    (/\ LastAddComputation
     /\ last.args[3] = "double"
     /\ "double" \notin pre.comps[last.self].methods
     /\ LastMethodCount # 1)
        => /\ last.err = "ConfigurationError"
           /\ heap.computations = pre.computations

C19_Witness ==
    /\ LastAddComputation
    /\ last.args[3] = "double"
    /\ "double" \notin pre.comps[last.self].methods
    /\ LastMethodCount >= 2
    /\ last.err = "ConfigurationError"

(* The last call is add_computation with a method that is given and defined,
   or omitted with exactly one candidate. *)
LastMethodResolves ==
    /\ LastAddComputation
    /\ IF last.args[3] = "none" THEN LastMethodCount = 1
       ELSE last.args[3] \in pre.comps[last.self].methods

(* The names of a list that were no Socket names of the Component before the
   last call. *)
MissingNames(names) ==
    {names[i] : i \in {j \in 1..Len(names) : ~NamePresent(pre, last.self, names[j])}}

(* name is, after the last call, an internal Socket of type "in" of its
   Component. *)
CreatedInternal(name) ==
    \E s \in SeqToSet(heap.comps[last.self].internal_sockets) :
        /\ heap.socks[s].name = name
        /\ heap.socks[s].type = "in"
        /\ s \notin Sockets(pre)

(* C20, as stated: add_computation creates the missing Sockets named in
   inputs as internal Sockets; a name in outputs that is no Socket of the
   Component is not created and the call raises SocketNotFoundError. *)
C20_OutputsNotAutoCreated ==
    LastMethodResolves =>
        /\ \A n \in MissingNames(last.args[1]) : CreatedInternal(n)
        /\ MissingNames(last.args[2]) \ SeqToSet(last.args[1]) # {} =>
              /\ last.err = "SocketNotFoundError"
              /\ \A n \in MissingNames(last.args[2]) \ SeqToSet(last.args[1]) :
                    ~NamePresent(heap, last.self, n)

(* C20, amended: add_computation creates the missing Sockets named in inputs
   and in outputs alike, as internal Sockets of type "in", and registers the
   Computation on them; a missing name does not make the call fail. *)
C20_MissingSocketsAutoCreated ==
    LastMethodResolves =>
        /\ last.err = "none"
        /\ \A n \in MissingNames(last.args[1]) \cup MissingNames(last.args[2]) :
              CreatedInternal(n)
        /\ \A i \in 1..Len(last.args[1]) :
              SeqContains(heap.socks[SocketOf(heap, last.self, last.args[1][i])]
                              .outgoing_connections,
                          ComputationRef(Len(heap.computations)))
        /\ \A i \in 1..Len(last.args[2]) :
              SeqContains(heap.socks[SocketOf(heap, last.self, last.args[2][i])]
                              .incoming_connections,
                          ComputationRef(Len(heap.computations)))

C20_Witness ==
    /\ LastMethodResolves
    /\ MissingNames(last.args[2]) # {}
    /\ last.err = "none"
    /\ Len(heap.comps[last.self].internal_sockets)
          > Len(pre.comps[last.self].internal_sockets)

LastAddComputationFlags ==
    /\ last.op = "add_computation"
    /\ Len(last.args) = 4
    /\ last.err = "none"

(* The Computation the last add_computation call constructed. *)
LastComputation == heap.computations[Len(heap.computations)]

(* The value a flag is to take: the one passed, else the setting, else the
   default. *)
PassedElseSetting(flag, settings, key, default) ==
    IF flag # "None" THEN flag
    ELSE IF DictHasKey(settings, key)
    THEN (CHOOSE e \in settings : e[1] = key)[2]
    ELSE default

(* C21: each of the four flags of the Computation that add_computation
   constructs has the value passed to the call whenever one is passed (True
   or False), otherwise the value in the Component's computation_settings,
   otherwise its default: True for flatten_ops, False for split_ops, False
   for add_auto_key_as_first_param, True for unflatten_ops. *)
C21_FlagsTakePassedValue ==
    LastAddComputationFlags =>
        /\ LastComputation.flatten_ops =
               PassedElseSetting(last.args[4].flatten_ops,
                                 pre.comps[last.self].computation_settings,
                                 "flatten_ops", "True")
        /\ LastComputation.split_ops =
               PassedElseSetting(last.args[4].split_ops,
                                 pre.comps[last.self].computation_settings,
                                 "split_ops", "False")
        /\ LastComputation.add_auto_key_as_first_param =
               PassedElseSetting(last.args[4].add_auto_key_as_first_param,
                                 pre.comps[last.self].computation_settings,
                                 "add_auto_key_as_first_param", "False")
        /\ LastComputation.unflatten_ops =
               PassedElseSetting(last.args[4].unflatten_ops,
                                 pre.comps[last.self].computation_settings,
                                 "unflatten_ops", "True")

Computations(h) == 1..Len(h.computations)

(* C22: after any sequence of add_computation calls, a Computation is in a
   Component's no_input_computations exactly when it is a Computation of that
   Component registered with an empty list of input Sockets, and every
   Computation is in the outgoing connections of each of its input Sockets
   and in the incoming connections of each of its output Sockets. *)
C22_NoInputComputationsFiled ==
    /\ \A c \in Components(heap), k \in Computations(heap) :
           SeqContains(heap.comps[c].no_input_computations, k)
               <=> /\ heap.computations[k].component = c
                   /\ heap.computations[k].input_sockets = << >>
    /\ \A k \in Computations(heap) :
           /\ \A i \in 1..Len(heap.computations[k].input_sockets) :
                  SeqContains(heap.socks[heap.computations[k].input_sockets[i]]
                                  .outgoing_connections,
                              ComputationRef(k))
           /\ \A i \in 1..Len(heap.computations[k].output_sockets) :
                  SeqContains(heap.socks[heap.computations[k].output_sockets[i]]
                                  .incoming_connections,
                              ComputationRef(k))

(* An add_computation call without inputs has filed its Computation, next to
   a Computation with inputs that is not filed. *)
C22_Witness ==
    /\ last.op = "add_computation" /\ last.err = "none" /\ last.args[1] = << >>
    /\ SeqContains(heap.comps[last.self].no_input_computations, Len(heap.computations))
    /\ \E k \in Computations(heap) :
           /\ heap.computations[k].input_sockets # << >>
           /\ ~SeqContains(heap.comps[heap.computations[k].component].no_input_computations, k)

(* Socket b is in the outgoing connections of Socket a. *)
InOutgoing(h, a, b) == SeqContains(h.socks[a].outgoing_connections, SocketRef(b))

(* Socket a is in the incoming connections of Socket b. *)
InIncoming(h, a, b) == SeqContains(h.socks[b].incoming_connections, SocketRef(a))

(* C27: after any sequence of Socket-to-Socket connect and disconnect calls,
   for Sockets A and B of different Components, B is in
   A.outgoing_connections exactly when A is in B.incoming_connections. *)
C27_LinksSymmetric ==
    \A a \in Sockets(heap), b \in Sockets(heap) :
        heap.socks[a].component # heap.socks[b].component =>
            (InOutgoing(heap, a, b) <=> InIncoming(heap, a, b))

(* A disconnect call between Sockets of different Components has returned
   and a link between Sockets of different Components is in place. *)
C27_Witness ==
    /\ last.op = "disconnect" /\ last.err = "none"
    /\ last.args[1].c # last.args[2].c
    /\ \E a \in Sockets(heap), b \in Sockets(heap) :
           /\ heap.socks[a].component # heap.socks[b].component
           /\ InOutgoing(heap, a, b)
           /\ InIncoming(heap, a, b)

(* C28: when add_component(child, connect=<list of entries>) raises because
   an entry names a Socket the child does not have, the call has had no
   effect: the parent's sub_components and Sockets and the child's
   has_been_added flag are what they were before the call. *)
C28_FailedAddHasNoEffect ==
    (LastAddComponent /\ last.args[2].kind = "list"
                      /\ last.err = "SocketNotFoundError") =>
        /\ heap.comps[last.self].sub_components = pre.comps[last.self].sub_components
        /\ heap.comps[last.self].input_sockets = pre.comps[last.self].input_sockets
        /\ heap.comps[last.self].output_sockets = pre.comps[last.self].output_sockets
        /\ heap.comps[last.self].internal_sockets = pre.comps[last.self].internal_sockets
        /\ heap.comps[LastChild].has_been_added = pre.comps[LastChild].has_been_added

(* The Sockets of the child that connect=CONNECT_INS, CONNECT_OUTS or True
   selects. *)
SelectedSockets(h, child, connect_) ==
    (IF connect_.kind = "true" \/ connect_.value = CONNECT_INS
     THEN SeqToSet(h.comps[child].input_sockets) ELSE {})
        \cup (IF connect_.kind = "true" \/ connect_.value = CONNECT_OUTS
              THEN SeqToSet(h.comps[child].output_sockets) ELSE {})

(* The parent has a Socket of the name of the child's Socket s that is linked
   to s in the direction of s's type. *)
ExposedUnderOwnName(h, parent, s) ==
    \E p \in SeqToSet(AllSockets(h, parent)) :
        /\ h.socks[p].name = h.socks[s].name
        /\ LinkedInDirection(h, p, s)

(* The number of links between the child's Socket s and Sockets of the
   parent, as recorded on s: in its incoming connections for an in-Socket,
   in its outgoing connections otherwise. *)
LinksToParent(h, parent, s) ==
    Cardinality({i \in 1..Len(IF h.socks[s].type = "in"
                              THEN h.socks[s].incoming_connections
                              ELSE h.socks[s].outgoing_connections) :
        LET e == (IF h.socks[s].type = "in"
                  THEN h.socks[s].incoming_connections
                  ELSE h.socks[s].outgoing_connections)[i]
        IN e.kind = "socket" /\ h.socks[e.id].component = parent})

(* The last call is add_component with connect=CONNECT_INS, CONNECT_OUTS or
   True, of a child that can be added. *)
LastAddSelected ==
    /\ LastAddComponent
    /\ last.args[2].kind \in {"true", "int"}
    /\ ~pre.comps[LastChild].has_been_added
    /\ ~DictHasKey(pre.comps[last.self].sub_components, pre.comps[LastChild].name)

(* C30: add_component(child, connect=CONNECT_INS | CONNECT_OUTS | True)
   returns with the child added and exactly the selected Sockets of the child
   (its in-Sockets, its out-Sockets, both) exposed under their own names; when
   the selection is empty the child is added, the parent gets no Socket and no
   error is raised. *)
C30_ExposesExactlySelected ==
    LastAddSelected =>
        /\ last.err = "none"
        /\ <<pre.comps[LastChild].name, LastChild>> \in heap.comps[last.self].sub_components
        /\ \A s \in SeqToSet(AllSockets(pre, LastChild)) :
               IF s \in SelectedSockets(pre, LastChild, last.args[2])
               THEN /\ ExposedUnderOwnName(heap, last.self, s)
                    /\ LinksToParent(heap, last.self, s) = LinksToParent(pre, last.self, s) + 1
               ELSE LinksToParent(heap, last.self, s) = LinksToParent(pre, last.self, s)
        /\ SelectedSockets(pre, LastChild, last.args[2]) = {} =>
               AllSockets(heap, last.self) = AllSockets(pre, last.self)

LastGetVariable == last.op = "get_variable"
LastGetter == LastGetVariable /\ last.args[2] = "getter"
LastSetter == LastGetVariable /\ last.args[2] # "getter"

(* The call before the last created a variable under the name, in the
   Component, that the last call asks for. *)
CreatedJustBefore ==
    /\ last2.op = "get_variable" /\ last2.args[2] # "getter" /\ last2.err = "none"
    /\ last2.self = last.self
    /\ last2.args[1] = last.args[1]

(* C23: get_variable(name) as getter raises VariableNotFoundError and changes
   nothing when name is not registered in the Component; when it is, it
   returns the registered object and changes nothing, and that object is the
   one the most recent creation under the name returned; a creation that
   returns has registered its variable under the name, as the only entry of
   that name, and has left the other names alone. *)
C23_GetterReturnsLastCreated ==
    /\ (LastGetter /\ ~DictHasKey(pre.comps[last.self].variables, last.args[1])) =>
           /\ last.err = "VariableNotFoundError"
           /\ heap = pre
    /\ (LastGetter /\ DictHasKey(pre.comps[last.self].variables, last.args[1])) =>
           /\ last.err = "none"
           /\ <<last.args[1], last.ret>> \in pre.comps[last.self].variables
           /\ heap = pre
    /\ (LastGetter /\ CreatedJustBefore) =>
           /\ last.err = "none"
           /\ last.ret = last2.ret
    /\ (LastSetter /\ last.err = "none") =>
           heap.comps[last.self].variables =
               {e \in pre.comps[last.self].variables : e[1] # last.args[1]}
                   \cup {<<last.args[1], last.ret>>}

(* A getter call has returned the object of the second creation under its
   name, which replaced the object of the first. *)
C23_Witness ==
    /\ LastGetter /\ CreatedJustBefore
    /\ DictHasKey(pre2.comps[last.self].variables, last.args[1])
    /\ <<last.args[1], last.ret>> \notin pre2.comps[last.self].variables
    /\ last.ret = last2.ret
    /\ last.ret # NoObject

LastGetVariables == last.op = "get_variables" /\ Len(last.args[1]) >= 1

(* C24: get_variables called with at least one name returns the mapping from
   each given name that is registered in the Component's variables to its
   variable, drops the names that are not registered without raising, and
   leaves the registry (and everything else) as it was. *)
C24_NamedSubsetReturned ==
    LastGetVariables =>
        /\ last.err = "none"
        /\ last.ret = {e \in pre.comps[last.self].variables :
                          \E i \in 1..Len(last.args[1]) : last.args[1][i] = e[1]}
        /\ heap = pre

(* A get_variables call with a registered and an unregistered name has
   returned the registered one. *)
C24_Witness ==
    /\ LastGetVariables
    /\ last.err = "none"
    /\ \E i \in 1..Len(last.args[1]) :
           ~DictHasKey(pre.comps[last.self].variables, last.args[1][i])
    /\ last.ret # {}

(* Every character of s is a word character or a hyphen, but for a newline
   that may end s. *)
WordsAndHyphens(s) ==
    \A i \in 1..Len(s) :
        \/ s[i] \in Letters \cup Digits \cup {"_", "-"}
        \/ i = Len(s) /\ s[i] = "\n"

LastConstruct == last.op = "__init__"

(* The scope of the last constructor call: the empty string when none is
   given. *)
LastScope == IF last.args[1] = "none" THEN "" ELSE last.args[1]

(* C25: constructing a Component with a scope that does not match
   ^[\w\-]*$ raises ScopeFormatError and constructs nothing; with a scope
   that matches, the Component is constructed with that scope, and with the
   scope as its name when no name is given (with the given name otherwise). *)
C25_ScopeCheckedAtConstruction ==
    LastConstruct =>
        IF WordsAndHyphens(Chars(LastScope))
        THEN /\ last.err = "none"
             /\ last.ret = Len(pre.comps) + 1
             /\ Len(heap.comps) = Len(pre.comps) + 1
             /\ heap.comps[last.ret].scope = LastScope
             /\ heap.comps[last.ret].name =
                    (IF last.args[2] = "none" THEN LastScope ELSE last.args[2])
        ELSE /\ last.err = "ScopeFormatError"
             /\ heap = pre

(* A construction with a scope outside the pattern has raised, after one
   with a scope of word characters and hyphens and no name returned a
   Component named by its scope. *)
C25_Witness ==
    /\ LastConstruct /\ last.err = "ScopeFormatError"
    /\ last2.op = "__init__" /\ last2.err = "none"
    /\ last2.args = <<"my-scope_1", "none">>
    /\ heap.comps[last2.ret].name = "my-scope_1"

(* C29: in every state reached through the constructor and copy(name, scope)
   the scope of every Component matches ^[\w\-]*$. *)
C29_EveryScopeMatches ==
    \A c \in Components(heap) : WordsAndHyphens(Chars(heap.comps[c].scope))

LastExploration == last.op = "Exploration"

(* C26: constructing an Exploration with both epsilon_spec and noise_spec set
   raises a configuration error and constructs nothing; in every constructed
   Exploration at most one of epsilon_exploration and noise_component is set
   and at most one sub-component was added, so that check_input_spaces never
   finds both. *)
C26_ExclusiveExploration ==
    /\ (LastExploration /\ IsTruthy(last.args[1]) /\ IsTruthy(last.args[2])) =>
           /\ last.err = "ConfigurationError"
           /\ heap = pre
    /\ \A e \in Explorations(heap) :
           /\ heap.explorations[e].epsilon_exploration = NoObject
                  \/ heap.explorations[e].noise_component = NoObject
           /\ Cardinality(heap.explorations[e].sub_components) <= 1
           /\ DictValues(heap.explorations[e].sub_components) =
                  {heap.explorations[e].epsilon_exploration,
                   heap.explorations[e].noise_component} \ {NoObject}
    /\ last.op = "check_input_spaces" => last.err # "ConfigurationError"

(* A construction with both specs has raised, after a construction with
   epsilon_spec alone returned an Exploration with one sub-component. *)
C26_Witness ==
    /\ LastExploration /\ last.err = "ConfigurationError"
    /\ last2.op = "Exploration" /\ last2.err = "none"
    /\ heap.explorations[last2.ret].epsilon_exploration # NoObject
    /\ Cardinality(heap.explorations[last2.ret].sub_components) = 1

LastGetSocketByName == last.op = "get_socket_by_name"

(* The Sockets of the list that have the name. *)
Named(h, list_, name) == {s \in SeqToSet(list_) : h.socks[s].name = name}

(* The earliest entry of the list that has the name. *)
FirstNamed(h, list_, name) ==
    list_[CHOOSE i \in 1..Len(list_) :
              /\ h.socks[list_[i]].name = name
              /\ \A j \in 1..(i - 1) : h.socks[list_[j]].name # name]

(* C31: get_socket_by_name(component, name, type_) changes nothing.  With
   type_ None it returns the first Socket of that name among the out-Sockets
   and internal Sockets, and only when there is none the first among the
   in-Sockets; with type_ "in" it returns the first among the in-Sockets and
   internal Sockets and never one of output_sockets; with type_ "out" the
   first among the out-Sockets and internal Sockets and never one of
   input_sockets; an internal Socket is returned whatever its own type; it
   returns None when no Socket of the lists searched has the name. *)
C31_LookupOrderAndSides ==
    LastGetSocketByName =>
        LET c == pre.comps[last.self]
            name == last.args[1]
            type_ == last.args[2]
            first == IF type_ = "in" THEN c.input_sockets \o c.internal_sockets
                     ELSE c.output_sockets \o c.internal_sockets
        IN /\ heap = pre
           /\ last.err = "none"
           /\ Named(pre, first, name) # {} => last.ret = FirstNamed(pre, first, name)
           /\ (Named(pre, first, name) = {} /\ type_ = "none"
                   /\ Named(pre, c.input_sockets, name) # {}) =>
                  last.ret = FirstNamed(pre, c.input_sockets, name)
           /\ (Named(pre, first, name) = {}
                   /\ (type_ # "none" \/ Named(pre, c.input_sockets, name) = {})) =>
                  last.ret = NoObject
           /\ type_ = "in" => last.ret \notin SeqToSet(c.output_sockets)
           /\ type_ = "out" => last.ret \notin SeqToSet(c.input_sockets)

(* A lookup with type_ "in" has returned an internal Socket of type "out". *)
C31_Witness ==
    /\ LastGetSocketByName
    /\ last.args[2] = "in"
    /\ last.ret # NoObject
    /\ last.ret \in SeqToSet(pre.comps[last.self].internal_sockets)
    /\ pre.socks[last.ret].type = "out"

LastLookup ==
    /\ last.op \in {"get_socket", "get_input", "get_output"}
    /\ last.op = "get_socket" => last.args[3] = FALSE

(* C32: a get_socket call with create_internal_if_not_found false, a
   get_input call or a get_output call leaves the Socket lists of every
   Component and the connection lists of every Socket as they were, whether
   it returns or raises. *)
C32_LookupsChangeNothing ==
    LastLookup =>
        /\ Len(heap.comps) = Len(pre.comps)
        /\ Len(heap.socks) = Len(pre.socks)
        /\ \A c \in Components(pre) :
               /\ heap.comps[c].input_sockets = pre.comps[c].input_sockets
               /\ heap.comps[c].output_sockets = pre.comps[c].output_sockets
               /\ heap.comps[c].internal_sockets = pre.comps[c].internal_sockets
        /\ \A s \in Sockets(pre) :
               /\ heap.socks[s].incoming_connections = pre.socks[s].incoming_connections
               /\ heap.socks[s].outgoing_connections = pre.socks[s].outgoing_connections

(* A lookup by name has raised for a Socket that is not there, after a
   lookup that returned a Socket. *)
C32_Witness ==
    /\ LastLookup /\ last.err = "SocketNotFoundError"
    /\ last2.op \in {"get_socket", "get_input", "get_output"}
    /\ last2.err = "none"
    /\ last2.ret # NoObject

(* The scope the last copy call is to give the copy. *)
LastCopyScope ==
    IF last.args[2] = "none" THEN pre.comps[last.self].scope ELSE last.args[2]

(* C33: copy(name, scope) returns a new Component whose scope is the given
   scope, or the original's when scope is None, and whose name is the given
   name, or that resulting scope when name is None; the names and scopes of
   the Components that existed before are unchanged. *)
C33_CopyNameAndScope ==
    LastCopy =>
        /\ last.err = "none"
        /\ last.ret \in Components(heap) \ Components(pre)
        /\ heap.comps[last.ret].scope = LastCopyScope
        /\ heap.comps[last.ret].name =
               (IF last.args[1] = "none" THEN LastCopyScope ELSE last.args[1])
        /\ \A c \in Components(pre) :
               /\ heap.comps[c].name = pre.comps[c].name
               /\ heap.comps[c].scope = pre.comps[c].scope

(* A copy made with a scope and without a name is named by that scope and not
   by the name of the original. *)
C33_Witness ==
    /\ LastCopy
    /\ last.args[1] = "none" /\ last.args[2] = "net"
    /\ heap.comps[last.ret].name = "net"
    /\ pre.comps[last.self].name # "net"
    /\ heap.comps[last.self].name = pre.comps[last.self].name

(* The last call is get_action with the tf backend, on an Exploration whose
   get_action was defined for the given kind and, for epsilon exploration,
   whose action space is known. *)
LastGetAction(kind) ==
    /\ last.op = "get_action"
    /\ last.args[1] = "tf"
    /\ <<"get_action", kind>> \in pre.explorations[last.self].api_methods
    /\ kind = "epsilon" => pre.explorations[last.self].action_space # "None"

LastSwitchOn == last.args[3] \in {"True", "tensor_true"}

(* C34: with epsilon exploration (and the tf backend), the action picked for
   a batch item is the input sample of the item whenever use_exploration is
   false or the item's epsilon decision is false, and the random category
   drawn for the item, in 0..num_categories-1, when both are true; an
   Exploration built with neither spec returns the input actions unchanged. *)
C34_PickSampleUnlessExploring ==
    /\ LastGetAction("epsilon") =>
           /\ last.err = "none"
           /\ Len(last.ret) = Len(last.args[2])
           /\ \A i \in 1..Len(last.args[2]) :
                  IF LastSwitchOn /\ last.args[4][i]
                  THEN /\ last.ret[i] = last.args[5][i]
                       /\ last.ret[i] \in 0..(NumCategories - 1)
                  ELSE last.ret[i] = last.args[2][i]
           /\ heap = pre
    /\ LastGetAction("pass_through") =>
           /\ last.err = "none"
           /\ last.ret = last.args[2]
           /\ heap = pre

(* A batch in which one item got its random category and the other kept its
   sample. *)
C34_Witness ==
    /\ LastGetAction("epsilon")
    /\ LastSwitchOn
    /\ \E i, j \in 1..Len(last.args[2]) :
           /\ last.args[4][i] /\ ~last.args[4][j]
           /\ last.ret[i] = last.args[5][i] /\ last.ret[i] # last.args[2][i]
           /\ last.ret[j] = last.args[2][j] /\ last.ret[j] # last.args[5][j]

(***************************************************************************)
(* IMPALAWorker.execute_timesteps                                          *)
(***************************************************************************)
LastExecute == last.op = "execute_timesteps"

LastWorker(h) == h.workers[last.self]

LastReset == last.args[4]

(* C35: execute_timesteps(num_timesteps=n) with n > 0 and reset=True returns
   normally, and the timesteps_executed of its statistics is n for the
   worker's single environment, whatever the environment does. *)
C35_ReturnsRequestedTimesteps ==
    (LastExecute /\ last.args[1] > 0 /\ LastReset = "True")
        => /\ last.err = "none"
           /\ last.ret.timesteps_executed = last.args[1]

(* The frames the environment was stepped through in the first action of the
   last call: up to the first terminal frame. *)
RECURSIVE FramesStepped(_, _)
FramesStepped(env, k) ==
    IF k = Len(env) \/ env[k].terminal THEN k ELSE FramesStepped(env, k + 1)

RECURSIVE RewardOf(_, _)
RewardOf(env, k) == IF k = 0 THEN 0 ELSE env[k].reward + RewardOf(env, k - 1)

(* The return and the length of the running episode after the first action
   of the last call, and whether that action ended the episode. *)
ReturnAfterAction ==
    (IF LastReset = "True" THEN 0 ELSE LastWorker(pre).episode_returns[1])
        + RewardOf(last.args[5], FramesStepped(last.args[5], 1))

StepsAfterAction ==
    (IF LastReset = "True" THEN 0 ELSE LastWorker(pre).episode_timesteps[1]) + 1

ActionEndedEpisode ==
    \/ last.args[5][FramesStepped(last.args[5], 1)].terminal
    \/ (0 < last.args[2] /\ last.args[2] <= StepsAfterAction)

LastEntry(entries) == entries[Len(entries)]

(* C36: the entries appended to finished_episode_rewards and to
   finished_episode_steps when an episode ends hold the episode's return and
   its number of steps at that moment, also after the trackers were reset. *)
C36_FinishedEntriesKeepValues ==
    (LastExecute /\ last.err # "RLGraphError" /\ ActionEndedEpisode)
        => /\ Len(LastWorker(heap).finished_episode_rewards) > 0
           /\ list_value(LastWorker(heap),
                         LastEntry(LastWorker(heap).finished_episode_rewards))[1]
                  = ReturnAfterAction
           /\ list_value(LastWorker(heap),
                         LastEntry(LastWorker(heap).finished_episode_steps))[1]
                  = StepsAfterAction

Zeroed(w) ==
    /\ w.env_frames = 0
    /\ w.finished_episode_rewards = << >>
    /\ w.finished_episode_steps = << >>
    /\ \A i \in 1..w.num_envs :
           /\ w.episode_returns[i] = 0
           /\ w.episode_timesteps[i] = 0
           /\ w.episode_terminals[i] = FALSE

NeverReset(w) == w.env_states[1] = "None"

(* C37: execute_timesteps with reset=False on a worker that was never reset
   raises RLGraphError and has called neither the agent nor the environment;
   with reset=True the statistics and the per-environment trackers are zeroed
   before the rollout, so that env_frames and the finished-episode lists
   count this call's frames and episodes only. *)
C37_ResetGuardsAndZeroes ==
    /\ \A w \in Workers(heap) : Zeroed(reset_counters(heap.workers[w]))
    /\ (LastExecute /\ LastReset = "False" /\ NeverReset(LastWorker(pre)))
           => /\ last.err = "RLGraphError"
              /\ heap = pre
    /\ (LastExecute /\ LastReset = "True")
           => /\ last.err # "RLGraphError"
              /\ LastWorker(heap).agent_calls >= LastWorker(pre).agent_calls + 2
              /\ LastWorker(heap).env_frames
                     = LastWorker(heap).num_envs
                         * (LastWorker(heap).env_steps - LastWorker(pre).env_steps)
              /\ Len(LastWorker(heap).finished_episode_rewards)
                     = LastWorker(heap).env_resets - LastWorker(pre).env_resets
              /\ Len(LastWorker(heap).finished_episode_steps)
                     = LastWorker(heap).env_resets - LastWorker(pre).env_resets

(* A never-reset worker was just refused, after another worker with frames
   and a finished episode on its books was run with reset=True. *)
C37_Witness ==
    /\ LastExecute /\ LastReset = "False" /\ NeverReset(LastWorker(pre))
    /\ last.err = "RLGraphError"
    /\ last2.op = "execute_timesteps" /\ last2.args[4] = "True"
    /\ pre2.workers[last2.self].env_frames > 0
    /\ Len(pre2.workers[last2.self].finished_episode_rewards) > 0
    /\ pre.workers[last2.self].env_frames = 1

(***************************************************************************)
(* Transpose                                                               *)
(***************************************************************************)
LastPreprocessed == last.op = "get_preprocessed_space" /\ last.err = "none"

LastApplied ==
    /\ last.op = "_graph_fn_apply" /\ last.err = "none"
    /\ last.args[1] = "tf"

SameButTimeMajor(out, in) ==
    /\ out.class = in.class
    /\ out.shape = in.shape
    /\ out.has_batch_rank = in.has_batch_rank
    /\ out.has_time_rank = in.has_time_rank
    /\ out.time_major = ~in.time_major

(* C38: get_preprocessed_space maps the sub-Space of every flat key to a
   Space of the same class, shape and batch- and time-rank presence with
   time_major negated, and records that time_major; preprocessing the
   returned Space again gives every key its original time_major; the op of
   _graph_fn_apply has batch and time rank 0 and 1 in some order, the time
   rank being 0 exactly when the time_major recorded for its key is true. *)
C38_TransposeFlipsTimeMajor ==
    /\ LastPreprocessed =>
           /\ DOMAIN flatten(last.ret) = DOMAIN flatten(last.args[1])
           /\ \A key \in DOMAIN flatten(last.args[1]) :
                  /\ SameButTimeMajor(flatten(last.ret)[key], flatten(last.args[1])[key])
                  /\ output_time_major(heap, last.self, key)
                         = flatten(last.ret)[key].time_major
    /\ (LastPreprocessed /\ last.args[2] = "previous") =>
           /\ last2.op = "get_preprocessed_space"
           /\ \A key \in DOMAIN flatten(last2.args[1]) :
                  flatten(last.ret)[key].time_major
                      = flatten(last2.args[1])[key].time_major
    /\ LastApplied =>
           /\ {last.ret._batch_rank, last.ret._time_rank} = {0, 1}
           /\ last.ret._time_rank = 0
                  <=> output_time_major(heap, last.self, last.args[2]) = TRUE

(* A Dict Space with sub-Spaces of both time orders was preprocessed twice,
   and the op for one of its keys was then built with time rank 0. *)
C38_Witness ==
    /\ LastApplied
    /\ last.ret._time_rank = 0
    /\ last2.op = "get_preprocessed_space" /\ last2.args[2] = "previous"
    /\ last2.args[1].class = "Dict"
    /\ last2.args[1].spaces.a.time_major # last2.args[1].spaces.b.time_major
    /\ last.args[2] \in DOMAIN flatten(last2.args[1])

====
